---- MODULE Spec2Model ----
(***************************************************************************)
(* Recipe persistence (recipe_helpers.py, db_manager.py) and background    *)
(* step-image generation (background_tasks.py, image_generator.py) of the  *)
(* Sizzle backend.                                                         *)
(*                                                                         *)
(* Strings are sequences of one-character strings, so that the database's  *)
(* ILIKE (case-insensitive pattern match with the wildcards _ and %) is    *)
(* computed and not assumed.  The empty sequence stands for a missing or   *)
(* empty (falsy) Python value.  A table is a set of rows; ids are drawn    *)
(* from one serial counter per table and never reused.                     *)
(***************************************************************************)
EXTENDS Integers, Sequences, FiniteSets, TLC

VARIABLES
    recipes,             \* table recipes: [id, title]
    ingredients,         \* master table ingredients: [id, name]
    equipment,           \* master table equipment: [id, name]
    recipe_ingredients,  \* [id, recipe_id, ingredient_id, name, quantity]
    recipe_equipment,    \* [id, recipe_id, equipment_id, name]
    recipe_steps,        \* [id, recipe_id, step_number, instruction, image_url, image_prompt,
                         \*  image_generated_at]
    step_ingredients,    \* [id, step_id, ingredient_id]
    step_equipment,      \* [id, step_id, equipment_id]
    lastId,              \* serial counter of each table
    sv,                  \* the request thread inside save_recipe_to_db
    mgr,                 \* outcome of the last SupabaseManager.save_recipe call
    sv2,                 \* a second request thread inside save_recipe_to_db
    tasks,               \* work items handed to _executor, in submission order
    storage,             \* object storage: the set of filenames that exist
    futures,             \* handles returned by generate_all_step_images_parallel
    wt,                  \* the thread inside wait_for_all_images
    backend,             \* IMAGE_GENERATION_BACKEND
    quota                \* what the environment may still do (calls, faults)

db == <<recipes, ingredients, equipment, recipe_ingredients, recipe_equipment,
        recipe_steps, step_ingredients, step_equipment, lastId>>
vars == <<recipes, ingredients, equipment, recipe_ingredients, recipe_equipment,
          recipe_steps, step_ingredients, step_equipment, lastId,
          sv, mgr, sv2, tasks, storage, futures, wt, backend, quota>>

----------------------------------------------------------------------------
(* Bounds of the exploration *)

MaxSaves == 2
MaxDbFaults == 1
MaxTasks == 2
MaxPoolTasks == 6

(* Program constants *)

max_workers == 5
max_retries == 2

----------------------------------------------------------------------------
(* Strings *)

Absent == <<>>

Lower(c) ==
    CASE c = "S" -> "s"
      [] c = "E" -> "e"
      [] c = "P" -> "p"
      [] OTHER -> c

RECURSIVE ILikeRec(_, _)
ILikeRec(p, v) ==
    IF p = <<>> THEN v = <<>>
    ELSE IF Head(p) = "%"
         THEN ILikeRec(Tail(p), v) \/ (v # <<>> /\ ILikeRec(p, Tail(v)))
         ELSE /\ v # <<>>
              /\ (Head(p) = "_" \/ Lower(Head(p)) = Lower(Head(v)))
              /\ ILikeRec(Tail(p), Tail(v))

(* column ILIKE pattern, as PostgREST evaluates .ilike(column, pattern) *)
ilike(pattern, value) == ILikeRec(pattern, value)

RECURSIVE Fold(_)
Fold(s) == IF s = <<>> THEN <<>> ELSE <<Lower(Head(s))>> \o Fold(Tail(s))

Min(S) == CHOOSE x \in S : \A y \in S : x <= y
Max(S) == CHOOSE x \in S : \A y \in S : x >= y

(* The rows of a table in the order of their ids *)
RECURSIVE ById(_)
ById(rows) ==
    IF rows = {} THEN <<>>
    ELSE LET r == CHOOSE x \in rows : \A y \in rows : x.id <= y.id
         IN  <<r>> \o ById(rows \ {r})

----------------------------------------------------------------------------
(* Inputs: the recipe records handed to save_recipe_to_db *)

Ing(n, q) == [name |-> n, quantity |-> q]
Equip(n) == [name |-> n]
Step(n, id, instr, ings, eqs) ==
    [step_number |-> n, id |-> id, instruction |-> instr,
     ingredients |-> ings, equipment |-> eqs]

(* one ingredient, one equipment item, two steps that use them *)
Omelette ==
    [title |-> <<"s">>,
     ingredients |-> <<Ing(<<"e">>, 1)>>,
     equipment |-> <<Equip(<<"p">>)>>,
     steps |-> <<Step(1, 0, <<"i">>, <<<<"e">>>>, <<>>),
                 Step(2, 0, <<"j">>, <<>>, <<<<"P">>>>)>>]

(* the same title in another case; a nameless ingredient; references that
   resolve (e), that do not (x, p); a step without instruction *)
OmeletteAgain ==
    [title |-> <<"S">>,
     ingredients |-> <<Ing(<<"E">>, 2), Ing(Absent, 1)>>,
     equipment |-> <<>>,
     steps |-> <<Step(1, 0, <<"j">>, <<<<"x">>, <<"e">>>>, <<<<"p">>>>),
                 Step(2, 0, Absent, <<>>, <<>>)>>]

(* a title and a reference that are LIKE patterns; an ingredient named twice;
   a nameless equipment item; two steps with one step number, the second
   taken from the step's id *)
Wild ==
    [title |-> <<"_">>,
     ingredients |-> <<Ing(<<"e">>, 1), Ing(<<"E">>, 2)>>,
     equipment |-> <<Equip(Absent)>>,
     steps |-> <<Step(1, 0, <<"i">>, <<<<"_">>>>, <<>>),
                 Step(0, 1, <<"j">>, <<>>, <<>>)>>]

(* no title *)
Untitled ==
    [title |-> Absent,
     ingredients |-> <<Ing(<<"e">>, 1)>>,
     equipment |-> <<>>,
     steps |-> <<Step(1, 0, <<"i">>, <<<<"e">>>>, <<>>)>>]

(* one ingredient and one equipment item, both used by the only step *)
Toast ==
    [title |-> <<"s">>,
     ingredients |-> <<Ing(<<"e">>, 1)>>,
     equipment |-> <<Equip(<<"p">>)>>,
     steps |-> <<Step(1, 0, <<"i">>, <<<<"E">>>>, <<<<"p">>>>)>>]

(* Toast with the instruction of its step rewritten *)
ToastAgain ==
    [title |-> <<"s">>,
     ingredients |-> <<Ing(<<"e">>, 1)>>,
     equipment |-> <<Equip(<<"p">>)>>,
     steps |-> <<Step(1, 0, <<"j">>, <<<<"E">>>>, <<<<"p">>>>)>>]

(* another recipe that names the ingredient of Toast, in the other case *)
Garnish ==
    [title |-> <<"g">>,
     ingredients |-> <<Ing(<<"E">>, 1)>>,
     equipment |-> <<>>,
     steps |-> <<>>]

(* a recipe of its own title whose ingredient and equipment item no master
   row names yet; no steps *)
Salad ==
    [title |-> <<"g">>,
     ingredients |-> <<Ing(<<"l">>, 1)>>,
     equipment |-> <<Equip(<<"b">>)>>,
     steps |-> <<>>]

NoData == [title |-> Absent, ingredients |-> <<>>, equipment |-> <<>>, steps |-> <<>>]

(* the calls save_recipe_to_db(recipe_data, auto_generate_images) explored *)
SaveCalls ==
    {[data |-> Omelette, auto |-> TRUE],
     [data |-> Omelette, auto |-> FALSE],
     [data |-> OmeletteAgain, auto |-> TRUE],
     [data |-> Wild, auto |-> TRUE],
     [data |-> Untitled, auto |-> TRUE]}

----------------------------------------------------------------------------
(* The database client *)

None == 0

NewId(t) == lastId[t] + 1

(* step.get('step_number') or step.get('id') *)
StepNumberOf(step) == IF step.step_number # 0 THEN step.step_number ELSE step.id

(* .select().ilike("title", title): the rows the pattern matches *)
TitleMatches(title) == {r \in recipes : ilike(title, r.title)}

(* variant: the lookup compares the names as they are written *)
NameEquals(table, name) == {r \in table : r.name = name}

(* .select("id").ilike("name", name) on a master table *)
NameMatches(table, name) == {r \in table : ilike(name, r.name)}

(* variant: the lookup leaves the recipe out and matches by name only *)
AnyRecipeNameMatches(table, recipe_id, name) == {r \in table : ilike(name, r.name)}

(* .select("id").eq("recipe_id", recipe_id).ilike("name", name) on a join table *)
RecipeNameMatches(table, recipe_id, name) ==
    {r \in table : r.recipe_id = recipe_id /\ ilike(name, r.name)}

(* variant: the delete has no filter *)
WithoutAnyRecipe(rows, recipe_id) == {}

(* variant: the delete removes nothing *)
KeepsRecipe(rows, recipe_id) == rows

(* .delete().eq("recipe_id", recipe_id): the rows that stay *)
WithoutRecipe(rows, recipe_id) == {r \in rows : r.recipe_id # recipe_id}

(* .delete().eq("step_id", step_id): the rows that stay *)
WithoutStep(rows, step_id) == {r \in rows : r.step_id # step_id}

(* a database call that raises *)
Fault == quota.faults > 0
UseFault == quota' = [quota EXCEPT !.faults = @ - 1]

sv0 ==
    [pc |-> "idle", data |-> NoData, auto |-> FALSE, recipe_id |-> None,
     step_ids |-> <<>>, i |-> 0, j |-> 0, k |-> 0, ing_id |-> None,
     step_id |-> None, step_recipe_id |-> None, result |-> None,
     existing |-> FALSE, error |-> "",
     \* history of the call, read by the properties only
     raised |-> FALSE, faulted |-> FALSE, writes |-> 0,
     same |-> {}, matched |-> {},
     base |-> [t \in {"recipe_ingredients", "recipe_equipment", "recipe_steps",
                      "step_ingredients", "step_equipment", "tasks"} |-> 0]]

(* the second thread, before its call *)
sv20 == [pc |-> "idle", recipe_id |-> None, ing_id |-> None, result |-> None]

----------------------------------------------------------------------------
(* Control flow of save_recipe_to_db between two database calls.  Each      *)
(* operator maps the thread's record to the record at its next call.        *)

(* return recipe_id *)
Return(s, value) ==
    [s EXCEPT !.pc = "done", !.result = value, !.i = 0, !.j = 0, !.k = 0,
              !.ing_id = None, !.step_id = None, !.step_recipe_id = None,
              !.step_ids = <<>>]

(* variant: a step without instruction is inserted like any other *)
StepsFromAll(s, j) ==
    IF j > Len(s.data.steps)
    THEN Return(s, s.recipe_id)
    ELSE [s EXCEPT !.pc = "step_insert", !.j = j, !.k = 0]

(* for step in steps, from the j-th on: steps without instruction are skipped *)
StepsFrom(s, j) ==
    LET todo == {n \in j..Len(s.data.steps) : s.data.steps[n].instruction # Absent}
    IN  IF todo = {}
        THEN Return(s, s.recipe_id)
        ELSE [s EXCEPT !.pc = "step_insert", !.j = Min(todo), !.k = 0]

(* variant: the flag is ignored *)
DispatchAlways(s) == [s EXCEPT !.pc = "dispatch"]

(* generate_step_image_async is called only if auto_generate_images *)
DispatchOrNext(s) ==
    IF s.auto THEN [s EXCEPT !.pc = "dispatch"] ELSE StepsFrom(s, s.j + 1)

(* if step.get('equipment'): _insert_step_equipment(step_id, ...) *)
StepEquipmentStart(s) ==
    IF s.data.steps[s.j].equipment # <<>>
    THEN [s EXCEPT !.pc = "se_select", !.k = 0]
    ELSE DispatchOrNext(s)

(* for equipment in equipment_list, from the k-th on: nameless ones are skipped *)
StepEquipmentFrom(s, k) ==
    LET refs == s.data.steps[s.j].equipment
        todo == {n \in k..Len(refs) : refs[n] # Absent}
    IN  IF todo = {}
        THEN DispatchOrNext(s)
        ELSE [s EXCEPT !.pc = "se_lookup", !.k = Min(todo)]

(* variant: the work item is handed over right after the step row *)
StepIngredientsAfterDispatch(s) == DispatchOrNext(s)

(* if step.get('ingredients'): _insert_step_ingredients(step_id, ...) *)
StepIngredientsStart(s) ==
    IF s.data.steps[s.j].ingredients # <<>>
    THEN [s EXCEPT !.pc = "si_select", !.k = 0]
    ELSE StepEquipmentStart(s)

(* for ingredient in ingredients, from the k-th on: nameless ones are skipped *)
StepIngredientsFrom(s, k) ==
    LET refs == s.data.steps[s.j].ingredients
        todo == {n \in k..Len(refs) : refs[n] # Absent}
    IN  IF todo = {}
        THEN StepEquipmentStart(s)
        ELSE [s EXCEPT !.pc = "si_lookup", !.k = Min(todo)]

(* for equipment in equipment_list, from the i-th on (nameless ones skipped) *)
EquipmentFrom(s, i) ==
    LET todo == {n \in i..Len(s.data.equipment) : s.data.equipment[n].name # Absent}
    IN  IF todo = {}
        THEN StepsFrom(s, 1)
        ELSE [s EXCEPT !.pc = "eq_select", !.i = Min(todo)]

(* for ingredient in ingredients, from the i-th on (nameless ones skipped) *)
IngredientsFrom(s, i) ==
    LET todo == {n \in i..Len(s.data.ingredients) : s.data.ingredients[n].name # Absent}
    IN  IF todo = {}
        THEN EquipmentFrom(s, 1)
        ELSE [s EXCEPT !.pc = "ing_select", !.i = Min(todo)]

(* a reference that matches no row of the recipe: on to the next reference *)
UnresolvedIngredient(s) == StepIngredientsFrom(s, s.k + 1)
UnresolvedEquipment(s) == StepEquipmentFrom(s, s.k + 1)

(* variant: the steps are deleted at once, their joins are left *)
DeleteStepsFirst(s, ids) == [s EXCEPT !.pc = "del_steps", !.step_ids = <<>>]

(* delete the joins of the next step id, or go on to the steps themselves *)
DeleteNext(s, ids) ==
    IF ids = <<>>
    THEN [s EXCEPT !.pc = "del_steps", !.step_ids = <<>>]
    ELSE [s EXCEPT !.pc = "del_si", !.step_ids = ids]

----------------------------------------------------------------------------
(* Work items of the thread pool *)

NoResult == [pending |-> TRUE]

(* recipe_data.get('title', 'Unknown Recipe') *)
UnknownRecipe == <<"U">>
TitleOrUnknown(data) == IF data.title = Absent THEN UnknownRecipe ELSE data.title

(* the closure task() of generate_step_image_async, before it has run *)
NewTask(step_id, step_number, step_instruction, recipe_id, recipe_title, check_existing) ==
    [step_id |-> step_id, step_number |-> step_number,
     step_instruction |-> step_instruction, recipe_id |-> recipe_id,
     recipe_title |-> recipe_title, check_existing |-> check_existing,
     \* attempt: the calls of the image generator made so far
     \* late: history, read by the properties only
     st |-> "queued", attempt |-> 0, image_data |-> NoResult, result |-> NoResult,
     called |-> {}, prior |-> FALSE, callback |-> FALSE, late |-> {},
     \* context: what the selects that feed the prompt returned
     \* orphan: history, whether the upload was made when the step row was gone
     context |-> NoResult, orphan |-> FALSE]

(* generate_step_image_callback: the closure task(), always check_existing=True,
   whose Future is dropped *)
CallbackTask(step_id, step_number, step_instruction, recipe_id, recipe_title) ==
    [NewTask(step_id, step_number, step_instruction, recipe_id, recipe_title, TRUE)
        EXCEPT !.callback = TRUE]

(* variant: the caller runs the closure itself and returns a finished Future *)
SubmitAndRun(queue, task) ==
    Append(queue, [task EXCEPT !.st = "done",
                               !.result = [success |-> FALSE, step_id |-> task.step_id]])

(* _executor.submit(task) *)
Submit(queue, task) == Append(queue, task)

----------------------------------------------------------------------------
(* save_recipe_to_db, one action per database call *)

Saver(s) == sv' = s
Wrote(s) == [s EXCEPT !.writes = @ + 1]
Raised(s) == [s EXCEPT !.raised = TRUE, !.faulted = TRUE]
Faulted(s) == [s EXCEPT !.faulted = TRUE]

imgVars == <<tasks, storage, futures, wt, backend>>

(* save_recipe_to_db is entered and looks the title up *)
_get_existing_recipe_by_title(call) ==
    /\ sv.pc \in {"idle", "done"}
    /\ quota.saves > 0
    /\ LET s == [sv0 EXCEPT !.pc = "insert", !.data = call.data, !.auto = call.auto,
                            !.base = [t \in DOMAIN sv0.base |->
                                        IF t = "tasks" THEN Len(tasks) ELSE lastId[t]],
                            !.same = {r.id : r \in {x \in recipes :
                                                      /\ call.data.title # Absent
                                                      /\ Fold(x.title) = Fold(call.data.title)}},
                            !.matched = {r.id : r \in TitleMatches(call.data.title)}]
           title == call.data.title
       IN  \/ /\ title = Absent
              /\ Saver(s)
              /\ quota' = [quota EXCEPT !.saves = @ - 1]
           \/ /\ title # Absent
              /\ TitleMatches(title) = {}
              /\ Saver(s)
              /\ quota' = [quota EXCEPT !.saves = @ - 1]
           \/ /\ title # Absent
              /\ \E r \in TitleMatches(title) :
                    Saver([s EXCEPT !.pc = "del_select", !.recipe_id = r.id,
                                    !.existing = TRUE])
              /\ quota' = [quota EXCEPT !.saves = @ - 1]
           \/ /\ title # Absent
              /\ Fault
              /\ Saver(Raised(s))
              /\ quota' = [quota EXCEPT !.saves = @ - 1, !.faults = @ - 1]
    /\ UNCHANGED <<db, mgr, sv2, imgVars>>

(* steps_result = select("id").eq("recipe_id", recipe_id) *)
_delete_recipe_data_select ==
    /\ sv.pc = "del_select"
    /\ \/ /\ LET rows == ById({r \in recipe_steps : r.recipe_id = sv.recipe_id})
             IN  Saver(DeleteNext(sv, [n \in 1..Len(rows) |-> rows[n].id]))
          /\ UNCHANGED quota
       \/ /\ Fault /\ UseFault
          /\ Saver(Raised([sv EXCEPT !.pc = "update"]))
    /\ UNCHANGED <<db, mgr, sv2, imgVars>>

(* table("step_ingredients").delete().eq("step_id", step_id) *)
_delete_recipe_data_step_ingredients ==
    /\ sv.pc = "del_si"
    /\ \/ /\ step_ingredients' = WithoutStep(step_ingredients, Head(sv.step_ids))
          /\ Saver(Wrote([sv EXCEPT !.pc = "del_se"]))
          /\ UNCHANGED quota
       \/ /\ Fault /\ UseFault
          /\ Saver(Raised([sv EXCEPT !.pc = "update", !.step_ids = <<>>]))
          /\ UNCHANGED step_ingredients
    /\ UNCHANGED <<recipes, ingredients, equipment, recipe_ingredients, recipe_equipment,
                   recipe_steps, step_equipment, lastId, mgr, sv2, imgVars>>

(* table("step_equipment").delete().eq("step_id", step_id) *)
_delete_recipe_data_step_equipment ==
    /\ sv.pc = "del_se"
    /\ \/ /\ step_equipment' = WithoutStep(step_equipment, Head(sv.step_ids))
          /\ Saver(Wrote(DeleteNext(sv, Tail(sv.step_ids))))
          /\ UNCHANGED quota
       \/ /\ Fault /\ UseFault
          /\ Saver(Raised([sv EXCEPT !.pc = "update", !.step_ids = <<>>]))
          /\ UNCHANGED step_equipment
    /\ UNCHANGED <<recipes, ingredients, equipment, recipe_ingredients, recipe_equipment,
                   recipe_steps, step_ingredients, lastId, mgr, sv2, imgVars>>

(* table("recipe_steps").delete().eq("recipe_id", recipe_id) *)
_delete_recipe_data_steps ==
    /\ sv.pc = "del_steps"
    /\ \/ /\ recipe_steps' = WithoutRecipe(recipe_steps, sv.recipe_id)
          /\ Saver(Wrote([sv EXCEPT !.pc = "del_ri"]))
          /\ UNCHANGED quota
       \/ /\ Fault /\ UseFault
          /\ Saver(Raised([sv EXCEPT !.pc = "update"]))
          /\ UNCHANGED recipe_steps
    /\ UNCHANGED <<recipes, ingredients, equipment, recipe_ingredients, recipe_equipment,
                   step_ingredients, step_equipment, lastId, mgr, sv2, imgVars>>

(* table("recipe_ingredients").delete().eq("recipe_id", recipe_id) *)
_delete_recipe_data_ingredients ==
    /\ sv.pc = "del_ri"
    /\ \/ /\ recipe_ingredients' = WithoutRecipe(recipe_ingredients, sv.recipe_id)
          /\ Saver(Wrote([sv EXCEPT !.pc = "del_re"]))
          /\ UNCHANGED quota
       \/ /\ Fault /\ UseFault
          /\ Saver(Raised([sv EXCEPT !.pc = "update"]))
          /\ UNCHANGED recipe_ingredients
    /\ UNCHANGED <<recipes, ingredients, equipment, recipe_equipment, recipe_steps,
                   step_ingredients, step_equipment, lastId, mgr, sv2, imgVars>>

(* table("recipe_equipment").delete().eq("recipe_id", recipe_id) *)
_delete_recipe_data_equipment ==
    /\ sv.pc = "del_re"
    /\ \/ /\ recipe_equipment' = WithoutRecipe(recipe_equipment, sv.recipe_id)
          /\ Saver(Wrote([sv EXCEPT !.pc = "update"]))
          /\ UNCHANGED quota
       \/ /\ Fault /\ UseFault
          /\ Saver(Raised([sv EXCEPT !.pc = "update"]))
          /\ UNCHANGED recipe_equipment
    /\ UNCHANGED <<recipes, ingredients, equipment, recipe_ingredients, recipe_steps,
                   step_ingredients, step_equipment, lastId, mgr, sv2, imgVars>>

(* table("recipes").update(recipe_update).eq("id", recipe_id) *)
_update_recipe ==
    /\ sv.pc = "update"
    /\ \/ /\ recipes' = {IF r.id = sv.recipe_id
                         THEN [r EXCEPT !.title = sv.data.title] ELSE r : r \in recipes}
          /\ Saver(Wrote(IngredientsFrom(sv, 1)))
          /\ UNCHANGED quota
       \/ /\ Fault /\ UseFault
          /\ Saver(Raised(IngredientsFrom(sv, 1)))
          /\ UNCHANGED recipes
    /\ UNCHANGED <<ingredients, equipment, recipe_ingredients, recipe_equipment,
                   recipe_steps, step_ingredients, step_equipment, lastId, mgr, sv2, imgVars>>

(* table("recipes").insert(recipe_insert); no row back means return None *)
_insert_recipe ==
    /\ sv.pc = "insert"
    /\ \/ /\ recipes' = recipes \cup {[id |-> NewId("recipes"), title |-> sv.data.title]}
          /\ lastId' = [lastId EXCEPT !["recipes"] = @ + 1]
          /\ Saver(Wrote(IngredientsFrom([sv EXCEPT !.recipe_id = NewId("recipes")], 1)))
          /\ UNCHANGED quota
       \/ /\ Fault /\ UseFault
          /\ Saver(Raised(Return(sv, None)))
          /\ UNCHANGED <<recipes, lastId>>
    /\ UNCHANGED <<ingredients, equipment, recipe_ingredients, recipe_equipment,
                   recipe_steps, step_ingredients, step_equipment, mgr, sv2, imgVars>>

(* _get_or_create_ingredient: select("id").ilike("name", name).limit(1) *)
_get_or_create_ingredient_select ==
    /\ sv.pc = "ing_select"
    /\ LET name == sv.data.ingredients[sv.i].name
       IN  \/ /\ NameMatches(ingredients, name) = {}
              /\ Saver([sv EXCEPT !.pc = "ing_create"])
              /\ UNCHANGED quota
           \/ /\ \E r \in NameMatches(ingredients, name) :
                    Saver([sv EXCEPT !.pc = "ing_link", !.ing_id = r.id])
              /\ UNCHANGED quota
           \/ /\ Fault /\ UseFault
              /\ Saver(Raised(IngredientsFrom(sv, sv.i + 1)))
    /\ UNCHANGED <<db, mgr, sv2, imgVars>>

(* variant: the insert is an upsert on the case-folded name *)
_get_or_create_ingredient_upsert ==
    /\ sv.pc = "ing_create"
    /\ LET name == sv.data.ingredients[sv.i].name
           held == {r \in ingredients : Fold(r.name) = Fold(name)}
       IN  \/ /\ held = {}
              /\ ingredients' = ingredients \cup {[id |-> NewId("ingredients"), name |-> name]}
              /\ lastId' = [lastId EXCEPT !["ingredients"] = @ + 1]
              /\ Saver(Wrote([sv EXCEPT !.pc = "ing_link", !.ing_id = NewId("ingredients")]))
           \/ /\ \E r \in held : Saver([sv EXCEPT !.pc = "ing_link", !.ing_id = r.id])
              /\ UNCHANGED <<ingredients, lastId>>
    /\ UNCHANGED <<recipes, equipment, recipe_ingredients, recipe_equipment,
                   recipe_steps, step_ingredients, step_equipment, mgr, sv2, imgVars, quota>>

(* _get_or_create_ingredient: table("ingredients").insert({"name": name}) *)
_get_or_create_ingredient_insert ==
    /\ sv.pc = "ing_create"
    /\ \/ /\ ingredients' = ingredients \cup
                 {[id |-> NewId("ingredients"), name |-> sv.data.ingredients[sv.i].name]}
          /\ lastId' = [lastId EXCEPT !["ingredients"] = @ + 1]
          /\ Saver(Wrote([sv EXCEPT !.pc = "ing_link", !.ing_id = NewId("ingredients")]))
          /\ UNCHANGED quota
       \/ /\ Fault /\ UseFault
          /\ Saver(Raised(IngredientsFrom(sv, sv.i + 1)))
          /\ UNCHANGED <<ingredients, lastId>>
    /\ UNCHANGED <<recipes, equipment, recipe_ingredients, recipe_equipment,
                   recipe_steps, step_ingredients, step_equipment, mgr, sv2, imgVars>>

(* variant: the link row stores the name in lower case *)
IngredientLinkFolded(id, recipe_id, ingredient_id, ingredient) ==
    [id |-> id, recipe_id |-> recipe_id, ingredient_id |-> ingredient_id,
     name |-> Fold(ingredient.name), quantity |-> ingredient.quantity]

(* the row _insert_recipe_ingredients links to the recipe *)
IngredientLink(id, recipe_id, ingredient_id, ingredient) ==
    [id |-> id, recipe_id |-> recipe_id, ingredient_id |-> ingredient_id,
     name |-> ingredient.name, quantity |-> ingredient.quantity]

(* _insert_recipe_ingredients: table("recipe_ingredients").insert(link_data);
   an exception here ends the loop over the ingredients *)
_insert_recipe_ingredients ==
    /\ sv.pc = "ing_link"
    /\ \/ /\ recipe_ingredients' = recipe_ingredients \cup
                 {IngredientLink(NewId("recipe_ingredients"), sv.recipe_id, sv.ing_id,
                                 sv.data.ingredients[sv.i])}
          /\ lastId' = [lastId EXCEPT !["recipe_ingredients"] = @ + 1]
          /\ Saver(Wrote(IngredientsFrom([sv EXCEPT !.ing_id = None], sv.i + 1)))
          /\ UNCHANGED quota
       \/ /\ Fault /\ UseFault
          /\ Saver(Raised(EquipmentFrom([sv EXCEPT !.ing_id = None], 1)))
          /\ UNCHANGED <<recipe_ingredients, lastId>>
    /\ UNCHANGED <<recipes, ingredients, equipment, recipe_equipment,
                   recipe_steps, step_ingredients, step_equipment, mgr, sv2, imgVars>>

(* _get_or_create_equipment: select("id").ilike("name", name).limit(1) *)
_get_or_create_equipment_select ==
    /\ sv.pc = "eq_select"
    /\ LET name == sv.data.equipment[sv.i].name
       IN  \/ /\ NameMatches(equipment, name) = {}
              /\ Saver([sv EXCEPT !.pc = "eq_create"])
              /\ UNCHANGED quota
           \/ /\ \E r \in NameMatches(equipment, name) :
                    Saver([sv EXCEPT !.pc = "eq_link", !.ing_id = r.id])
              /\ UNCHANGED quota
           \/ /\ Fault /\ UseFault
              /\ Saver(Raised(EquipmentFrom(sv, sv.i + 1)))
    /\ UNCHANGED <<db, mgr, sv2, imgVars>>

(* _get_or_create_equipment: table("equipment").insert({"name": name}) *)
_get_or_create_equipment_insert ==
    /\ sv.pc = "eq_create"
    /\ \/ /\ equipment' = equipment \cup
                 {[id |-> NewId("equipment"), name |-> sv.data.equipment[sv.i].name]}
          /\ lastId' = [lastId EXCEPT !["equipment"] = @ + 1]
          /\ Saver(Wrote([sv EXCEPT !.pc = "eq_link", !.ing_id = NewId("equipment")]))
          /\ UNCHANGED quota
       \/ /\ Fault /\ UseFault
          /\ Saver(Raised(EquipmentFrom(sv, sv.i + 1)))
          /\ UNCHANGED <<equipment, lastId>>
    /\ UNCHANGED <<recipes, ingredients, recipe_ingredients, recipe_equipment,
                   recipe_steps, step_ingredients, step_equipment, mgr, sv2, imgVars>>

(* the row _insert_recipe_equipment links to the recipe *)
EquipmentLink(id, recipe_id, equipment_id, item) ==
    [id |-> id, recipe_id |-> recipe_id, equipment_id |-> equipment_id,
     name |-> item.name]

(* _insert_recipe_equipment: table("recipe_equipment").insert(link_data) *)
_insert_recipe_equipment ==
    /\ sv.pc = "eq_link"
    /\ \/ /\ recipe_equipment' = recipe_equipment \cup
                 {EquipmentLink(NewId("recipe_equipment"), sv.recipe_id, sv.ing_id,
                                sv.data.equipment[sv.i])}
          /\ lastId' = [lastId EXCEPT !["recipe_equipment"] = @ + 1]
          /\ Saver(Wrote(EquipmentFrom([sv EXCEPT !.ing_id = None], sv.i + 1)))
          /\ UNCHANGED quota
       \/ /\ Fault /\ UseFault
          /\ Saver(Raised(StepsFrom([sv EXCEPT !.ing_id = None], 1)))
          /\ UNCHANGED <<recipe_equipment, lastId>>
    /\ UNCHANGED <<recipes, ingredients, equipment, recipe_ingredients,
                   recipe_steps, step_ingredients, step_equipment, mgr, sv2, imgVars>>

(* the row _insert_recipe_steps inserts for a step *)
StepRow(id, recipe_id, step) ==
    [id |-> id, recipe_id |-> recipe_id, step_number |-> StepNumberOf(step),
     instruction |-> step.instruction, image_url |-> Absent, image_prompt |-> "",
     image_generated_at |-> None]

(* _insert_recipe_steps: table("recipe_steps").insert(step_data).  An exception
   ends the loop over the steps; an empty result skips the step. *)
_insert_recipe_steps ==
    /\ sv.pc = "step_insert"
    /\ \/ /\ recipe_steps' = recipe_steps \cup
                 {StepRow(NewId("recipe_steps"), sv.recipe_id, sv.data.steps[sv.j])}
          /\ lastId' = [lastId EXCEPT !["recipe_steps"] = @ + 1]
          /\ Saver(Wrote(StepIngredientsStart([sv EXCEPT !.step_id = NewId("recipe_steps")])))
          /\ UNCHANGED quota
       \/ /\ Fault /\ UseFault
          /\ Saver(Raised(Return(sv, sv.recipe_id)))
          /\ UNCHANGED <<recipe_steps, lastId>>
       \/ /\ Fault /\ UseFault
          /\ Saver(Faulted(StepsFrom(sv, sv.j + 1)))
          /\ UNCHANGED <<recipe_steps, lastId>>
    /\ UNCHANGED <<recipes, ingredients, equipment, recipe_ingredients, recipe_equipment,
                   step_ingredients, step_equipment, mgr, sv2, imgVars>>

(* _insert_step_ingredients: select("recipe_id").eq("id", step_id) *)
_insert_step_ingredients_select ==
    /\ sv.pc = "si_select"
    /\ \/ /\ {r \in recipe_steps : r.id = sv.step_id} = {}
          /\ Saver(StepEquipmentStart(sv))
          /\ UNCHANGED quota
       \/ /\ \E r \in {x \in recipe_steps : x.id = sv.step_id} :
                Saver(StepIngredientsFrom([sv EXCEPT !.step_recipe_id = r.recipe_id], 1))
          /\ UNCHANGED quota
       \/ /\ Fault /\ UseFault
          /\ Saver(Raised(StepEquipmentStart(sv)))
    /\ UNCHANGED <<db, mgr, sv2, imgVars>>

(* _insert_step_ingredients: the recipe_ingredients row of this recipe whose
   name the reference matches; data[0] of an unordered result *)
_insert_step_ingredients_lookup ==
    /\ sv.pc = "si_lookup"
    /\ LET name == sv.data.steps[sv.j].ingredients[sv.k]
           found == RecipeNameMatches(recipe_ingredients, sv.step_recipe_id, name)
       IN  \/ /\ found = {}
              /\ Saver(UnresolvedIngredient(sv))
              /\ UNCHANGED quota
           \/ /\ \E r \in found : Saver([sv EXCEPT !.pc = "si_insert", !.ing_id = r.id])
              /\ UNCHANGED quota
           \/ /\ Fault /\ UseFault
              /\ Saver(Raised(StepEquipmentStart(sv)))
    /\ UNCHANGED <<db, mgr, sv2, imgVars>>

(* _insert_step_ingredients: table("step_ingredients").insert(link_data) *)
_insert_step_ingredients ==
    /\ sv.pc = "si_insert"
    /\ \/ /\ step_ingredients' = step_ingredients \cup
                 {[id |-> NewId("step_ingredients"), step_id |-> sv.step_id,
                   ingredient_id |-> sv.ing_id]}
          /\ lastId' = [lastId EXCEPT !["step_ingredients"] = @ + 1]
          /\ Saver(Wrote(StepIngredientsFrom([sv EXCEPT !.ing_id = None], sv.k + 1)))
          /\ UNCHANGED quota
       \/ /\ Fault /\ UseFault
          /\ Saver(Raised(StepEquipmentStart([sv EXCEPT !.ing_id = None])))
          /\ UNCHANGED <<step_ingredients, lastId>>
    /\ UNCHANGED <<recipes, ingredients, equipment, recipe_ingredients, recipe_equipment,
                   recipe_steps, step_equipment, mgr, sv2, imgVars>>

(* _insert_step_equipment: select("recipe_id").eq("id", step_id) *)
_insert_step_equipment_select ==
    /\ sv.pc = "se_select"
    /\ \/ /\ {r \in recipe_steps : r.id = sv.step_id} = {}
          /\ Saver(DispatchOrNext(sv))
          /\ UNCHANGED quota
       \/ /\ \E r \in {x \in recipe_steps : x.id = sv.step_id} :
                Saver(StepEquipmentFrom([sv EXCEPT !.step_recipe_id = r.recipe_id], 1))
          /\ UNCHANGED quota
       \/ /\ Fault /\ UseFault
          /\ Saver(Raised(DispatchOrNext(sv)))
    /\ UNCHANGED <<db, mgr, sv2, imgVars>>

(* _insert_step_equipment: the recipe_equipment row of this recipe whose name
   the reference matches *)
_insert_step_equipment_lookup ==
    /\ sv.pc = "se_lookup"
    /\ LET name == sv.data.steps[sv.j].equipment[sv.k]
           found == RecipeNameMatches(recipe_equipment, sv.step_recipe_id, name)
       IN  \/ /\ found = {}
              /\ Saver(UnresolvedEquipment(sv))
              /\ UNCHANGED quota
           \/ /\ \E r \in found : Saver([sv EXCEPT !.pc = "se_insert", !.ing_id = r.id])
              /\ UNCHANGED quota
           \/ /\ Fault /\ UseFault
              /\ Saver(Raised(DispatchOrNext(sv)))
    /\ UNCHANGED <<db, mgr, sv2, imgVars>>

(* _insert_step_equipment: table("step_equipment").insert(link_data) *)
_insert_step_equipment ==
    /\ sv.pc = "se_insert"
    /\ \/ /\ step_equipment' = step_equipment \cup
                 {[id |-> NewId("step_equipment"), step_id |-> sv.step_id,
                   equipment_id |-> sv.ing_id]}
          /\ lastId' = [lastId EXCEPT !["step_equipment"] = @ + 1]
          /\ Saver(Wrote(StepEquipmentFrom([sv EXCEPT !.ing_id = None], sv.k + 1)))
          /\ UNCHANGED quota
       \/ /\ Fault /\ UseFault
          /\ Saver(Raised(DispatchOrNext([sv EXCEPT !.ing_id = None])))
          /\ UNCHANGED <<step_equipment, lastId>>
    /\ UNCHANGED <<recipes, ingredients, equipment, recipe_ingredients, recipe_equipment,
                   recipe_steps, step_ingredients, mgr, sv2, imgVars>>

(* variant: the work item is handed over with check_existing false *)
StepTaskUnchecked(s) ==
    NewTask(s.step_id, StepNumberOf(s.data.steps[s.j]), s.data.steps[s.j].instruction,
            s.recipe_id, TitleOrUnknown(s.data), FALSE)

(* the work item _insert_recipe_steps hands over for the step just inserted *)
StepTask(s) ==
    NewTask(s.step_id, StepNumberOf(s.data.steps[s.j]), s.data.steps[s.j].instruction,
            s.recipe_id, TitleOrUnknown(s.data), TRUE)

(* _insert_recipe_steps: generate_step_image_async(...) for the step, which
   submits the closure and returns the Future *)
generate_step_image_async ==
    /\ sv.pc = "dispatch"
    /\ tasks' = Submit(tasks, StepTask(sv))
    /\ Saver(StepsFrom(sv, sv.j + 1))
    /\ UNCHANGED <<db, mgr, sv2, storage, futures, wt, backend, quota>>

(* SupabaseManager.save_recipe(recipe_data): the whole handler.  The outcome
   is "raised" if an exception leaves it, else what it returns. *)
save_recipe(data) ==
    /\ sv.pc \in {"idle", "done"}
    /\ quota.saves > 0
    /\ LET found == {r \in recipes : r.title = data.title}
       IN  \/ /\ data.title = Absent
              /\ mgr' = [title |-> data.title, outcome |-> "none", writes |-> 0]
              /\ quota' = [quota EXCEPT !.saves = @ - 1]
              /\ UNCHANGED <<recipes, lastId>>
           \/ /\ data.title # Absent
              /\ found # {}
              /\ mgr' = [title |-> data.title, outcome |-> "row", writes |-> 1]
              /\ quota' = [quota EXCEPT !.saves = @ - 1]
              /\ UNCHANGED <<recipes, lastId>>
           \/ /\ data.title # Absent
              /\ found = {}
              /\ recipes' = recipes \cup {[id |-> NewId("recipes"), title |-> data.title]}
              /\ lastId' = [lastId EXCEPT !["recipes"] = @ + 1]
              /\ mgr' = [title |-> data.title, outcome |-> "row", writes |-> 1]
              /\ quota' = [quota EXCEPT !.saves = @ - 1]
           \/ /\ data.title # Absent
              /\ Fault
              /\ mgr' = [title |-> data.title, outcome |-> "none", writes |-> 0]
              /\ quota' = [quota EXCEPT !.saves = @ - 1, !.faults = @ - 1]
              /\ UNCHANGED <<recipes, lastId>>
    /\ UNCHANGED <<ingredients, equipment, recipe_ingredients, recipe_equipment,
                   recipe_steps, step_ingredients, step_equipment, sv, sv2, imgVars>>

----------------------------------------------------------------------------
(* background_tasks.py and image_generator.py: the work items on the pool *)

Handles == 1..Len(tasks)
Queued == {t \in Handles : tasks[t].st = "queued"}
Running == {t \in Handles : tasks[t].st \notin {"queued", "done"}}

(* variant: a name that also carries the moment of the upload *)
FilenameByTime(recipe_id, step_number) == <<recipe_id, step_number, Cardinality(storage)>>

(* variant: the pool starts a thread for every submitted item *)
WorkerAlwaysFree == TRUE

(* ThreadPoolExecutor(max_workers=5): a queued item is taken when fewer than
   max_workers items are being executed *)
WorkerFree == Cardinality(Running) < max_workers

(* f"recipe_steps/recipe_{recipe_id}_step_{step_number}.png" *)
Filename(recipe_id, step_number) == <<recipe_id, step_number>>

(* OCIObjectStorage.object_exists(filename) *)
object_exists(filename) == filename \in storage

(* OCIObjectStorage.get_object_url(filename), also what upload_file_to_oci returns *)
get_object_url(filename) == <<"url">> \o filename

(* variant: the short cut returns the dict of a fresh generation *)
ExistingImageUnmarked(filename) ==
    [image_url |-> get_object_url(filename), prompt |-> "generated"]

(* the dict generate_and_store_step_image returns when the object exists *)
ExistingImage(filename) ==
    [image_url |-> get_object_url(filename), prompt |-> "existing", skipped |-> TRUE]

(* the dict generate_and_store_step_image returns after an upload *)
StoredImage(oci_url) == [image_url |-> oci_url, prompt |-> "generated"]

(* variant: one failed item of the batch marks the results that follow as failed *)
SuccessUnlessSiblingFailed(step_id, image_data) ==
    IF \E u \in DOMAIN tasks : tasks[u].st = "done" /\ "update" \notin tasks[u].called
    THEN [success |-> FALSE, step_id |-> step_id]
    ELSE [k \in {"success", "step_id"} \cup DOMAIN image_data |->
            IF k = "success" THEN TRUE
            ELSE IF k = "step_id" THEN step_id
            ELSE image_data[k]]

(* task(): {"success": True, "step_id": step_id, **image_data} *)
SuccessResult(step_id, image_data) ==
    [k \in {"success", "step_id"} \cup DOMAIN image_data |->
        IF k = "success" THEN TRUE
        ELSE IF k = "step_id" THEN step_id
        ELSE image_data[k]]

(* variant: the failure dict without the step id *)
FailureResultBare(step_id) == [success |-> FALSE]

(* task(): {"success": False, "step_id": step_id} *)
FailureResult(step_id) == [success |-> FALSE, step_id |-> step_id]

(* variant: the handler of task() reports the exception as a success *)
ErrorReportedAsSuccess(step_id) ==
    [success |-> TRUE, step_id |-> step_id, error |-> "exception"]

(* task(): {"success": False, "step_id": step_id, "error": str(e)} *)
ErrorResult(step_id) == [success |-> FALSE, step_id |-> step_id, error |-> "exception"]

(* generate_step_image_callback.task(): return result, when result is None;
   and the exception its Future holds, the closure having no handler *)
CallbackNone == [returned |-> "None"]
CallbackRaised == [raised |-> "exception"]

(* has generate_and_store_step_image for this key already returned an image *)
CompletedFor(recipe_id, step_number) ==
    \E u \in Handles :
        /\ tasks[u].recipe_id = recipe_id
        /\ tasks[u].step_number = step_number
        /\ tasks[u].st \in {"update", "done"}
        /\ tasks[u].image_data # NoResult

(* variant: the existence check is never made *)
NeverSkips(task) == FALSE

(* whether generate_and_store_step_image takes the short cut *)
SkipsGeneration(task) ==
    task.check_existing /\ object_exists(Filename(task.recipe_id, task.step_number))

(* variant: a failed call is followed by the step update all the same *)
FailedButUpdates(task) ==
    [task EXCEPT !.st = "update",
                 !.image_data = StoredImage(get_object_url(Filename(task.recipe_id,
                                                                    task.step_number)))]

(* generate_and_store_step_image returned None: task() reports the failure *)
Failed(task) ==
    [task EXCEPT !.st = "done",
                 !.result = IF task.callback THEN CallbackNone
                            ELSE FailureResult(task.step_id)]

(* variant: the retry loop runs on either backend *)
RetriesOnEveryBackend == max_retries + 1

(* the attempts the backend makes: range(max_retries + 1), or one for DALL-E *)
Attempts == IF backend = "stable_diffusion" THEN max_retries + 1 ELSE 1

(* results.append({"success": False, "error": str(e)}) *)
TimeoutResult == [success |-> FALSE, error |-> "timeout"]

(* wait_for_all_images has returned, with the timeout entry for this handle *)
ReportedTimeout(t) ==
    /\ wt.pc = "done"
    /\ \E k \in 1..Len(wt.results) : wt.futures[k] = t /\ wt.results[k] = TimeoutResult

(* history: the calls the item has made after such a report *)
Late(task, t, call) ==
    [task EXCEPT !.late = IF ReportedTimeout(t) THEN @ \cup {call} ELSE @]

(* A free worker takes the oldest queued item and enters
   generate_and_store_step_image up to the existence check. *)
task_start(t) ==
    /\ t \in Queued
    /\ t = Min(Queued)
    /\ WorkerFree
    /\ LET task == [tasks[t] EXCEPT
                       !.prior = CompletedFor(tasks[t].recipe_id, tasks[t].step_number)]
           filename == Filename(task.recipe_id, task.step_number)
       IN  tasks' = [tasks EXCEPT ![t] =
                        IF SkipsGeneration(task)
                        THEN [task EXCEPT !.st = "update",
                                          !.image_data = ExistingImage(filename)]
                        ELSE [task EXCEPT !.st = "fetch"]]
    /\ UNCHANGED <<db, sv, mgr, sv2, storage, futures, wt, backend, quota>>

(* what the selects return: the join rows of the step, by step_id, and the
   step numbers of the recipe a select by recipe_id and step_number finds *)
StepContext(task) ==
    [ingredients |-> {j.ingredient_id : j \in {x \in step_ingredients :
                                                  x.step_id = task.step_id}},
     equipment |-> {j.equipment_id : j \in {x \in step_equipment :
                                                x.step_id = task.step_id}},
     steps |-> {r.step_number : r \in {x \in recipe_steps :
                                           x.recipe_id = task.recipe_id}}]

(* the selects on step_ingredients, step_equipment and recipe_steps that feed
   the prompt; an exception makes generate_and_store_step_image return None *)
fetch_step_context(t) ==
    /\ t \in Handles
    /\ tasks[t].st = "fetch"
    /\ \/ /\ tasks' = [tasks EXCEPT ![t].st = "generate",
                                    ![t].context = StepContext(tasks[t])]
          /\ UNCHANGED quota
       \/ /\ Fault /\ UseFault
          /\ tasks' = [tasks EXCEPT ![t] = Failed(tasks[t])]
    /\ UNCHANGED <<db, sv, mgr, sv2, storage, futures, wt, backend>>

(* one call of generate_image_with_stable_diffusion or generate_image_with_dalle:
   it returns a URL, or None, after which the loop retries or gives up *)
generate_image(t) ==
    /\ t \in Handles
    /\ tasks[t].st = "generate"
    /\ LET task == [tasks[t] EXCEPT !.called = @ \cup {"generate"}, !.attempt = @ + 1]
       IN  \/ tasks' = [tasks EXCEPT ![t] = [task EXCEPT !.st = "download"]]
           \/ /\ task.attempt < Attempts
              /\ tasks' = [tasks EXCEPT ![t] = task]
           \/ /\ task.attempt >= Attempts
              /\ tasks' = [tasks EXCEPT ![t] = Failed(task)]
    /\ UNCHANGED <<db, sv, mgr, sv2, storage, futures, wt, backend, quota>>

(* download_image(image_url): the bytes, or None *)
download_image(t) ==
    /\ t \in Handles
    /\ tasks[t].st = "download"
    /\ LET task == [tasks[t] EXCEPT !.called = @ \cup {"download"}]
       IN  \/ tasks' = [tasks EXCEPT ![t] = [task EXCEPT !.st = "upload"]]
           \/ tasks' = [tasks EXCEPT ![t] = Failed(task)]
    /\ UNCHANGED <<db, sv, mgr, sv2, storage, futures, wt, backend, quota>>

(* upload_file_to_oci(image_bytes, filename): the URL, or nothing *)
upload_file_to_oci(t) ==
    /\ t \in Handles
    /\ tasks[t].st = "upload"
    /\ LET task == [tasks[t] EXCEPT !.called = @ \cup {"upload"}]
           filename == Filename(task.recipe_id, task.step_number)
       IN  \/ /\ storage' = storage \cup {filename}
              /\ tasks' = [tasks EXCEPT ![t] =
                              [Late(task, t, "upload") EXCEPT
                                  !.st = "update",
                                  !.orphan = \A r \in recipe_steps : r.id # task.step_id,
                                  !.image_data = StoredImage(get_object_url(filename))]]
           \/ /\ tasks' = [tasks EXCEPT ![t] = Failed(task)]
              /\ UNCHANGED storage
    /\ UNCHANGED <<db, sv, mgr, sv2, futures, wt, backend, quota>>

(* recipe_steps.update(update_data).eq("id", step_id) *)
WithStepImage(rows, step_id, image_url, prompt) ==
    {IF r.id = step_id
     THEN [r EXCEPT !.image_url = image_url, !.image_prompt = prompt,
                    !.image_generated_at = "now()"]
     ELSE r : r \in rows}

(* variant: the exception of the update reaches the handler of task() *)
UpdateFailureRaised(task) == [task EXCEPT !.result = ErrorResult(task.step_id)]

(* update_recipe_step_image: except Exception, log; task() goes on as after a
   write that was made *)
UpdateFailed(task) == task

(* task(): update_recipe_step_image(step_id, image_url, prompt), whose own
   handler absorbs an exception of the update, then the success dict *)
update_recipe_step_image(t) ==
    /\ t \in Handles
    /\ tasks[t].st = "update"
    /\ LET task == [tasks[t] EXCEPT !.called = @ \cup {"update"}, !.st = "done",
                                    !.result = IF tasks[t].callback
                                               THEN tasks[t].image_data
                                               ELSE SuccessResult(tasks[t].step_id,
                                                                  tasks[t].image_data)]
       IN  \/ /\ recipe_steps' = WithStepImage(recipe_steps, task.step_id,
                                               task.image_data.image_url,
                                               task.image_data.prompt)
              /\ tasks' = [tasks EXCEPT ![t] = Late(task, t, "update")]
              /\ UNCHANGED quota
           \/ /\ Fault /\ UseFault
              /\ tasks' = [tasks EXCEPT ![t] = UpdateFailed(task)]
              /\ UNCHANGED recipe_steps
    /\ UNCHANGED <<recipes, ingredients, equipment, recipe_ingredients, recipe_equipment,
                   step_ingredients, step_equipment, lastId, sv, mgr, sv2, storage,
                   futures, wt, backend>>

(* an exception that reaches the handler of task() itself: raised outside
   generate_and_store_step_image, before it is entered or after it returned *)
task_error(t) ==
    /\ \/ t \in Queued /\ t = Min(Queued) /\ WorkerFree
       \/ t \in Handles /\ tasks[t].st = "update"
    /\ tasks' = [tasks EXCEPT ![t] = [tasks[t] EXCEPT
                                         !.st = "done",
                                         !.result = IF tasks[t].callback
                                                    THEN CallbackRaised
                                                    ELSE ErrorResult(tasks[t].step_id)]]
    /\ UNCHANGED <<db, sv, mgr, sv2, storage, futures, wt, backend, quota>>

----------------------------------------------------------------------------
(* Callers of the dispatcher *)

(* the step dicts a caller passes: the recipe's step rows *)
StepsOf(recipe_id) == ById({r \in recipe_steps : r.recipe_id = recipe_id})

RECURSIVE SubmitAll(_, _)
SubmitAll(queue, items) ==
    IF items = <<>> THEN queue ELSE SubmitAll(Submit(queue, Head(items)), Tail(items))

(* the step lists a caller passes: the recipe's steps, or one of them *)
StepLists(recipe_id) ==
    LET all == StepsOf(recipe_id)
    IN  {all} \cup {<<all[n]>> : n \in 1..Len(all)}

(* generate_all_step_images_parallel(recipe_id, recipe_title, steps, check_existing):
   one generate_step_image_async per step; the Futures in the order of the steps *)
generate_all_step_images_parallel(recipe, steps, check_existing) ==
    /\ LET items == [n \in 1..Len(steps) |->
                       NewTask(steps[n].id, steps[n].step_number, steps[n].instruction,
                               recipe.id, recipe.title, check_existing)]
       IN  /\ steps # <<>>
           /\ Len(tasks) + Len(steps) <= quota.tasks
           /\ tasks' = SubmitAll(tasks, items)
           /\ futures' = [n \in 1..Len(steps) |-> Len(tasks) + n]
    /\ UNCHANGED <<db, sv, mgr, sv2, storage, wt, backend, quota>>

(* generate_step_image_callback(step_id, step_number, step_instruction,
   recipe_id, recipe_title, on_complete=None): _executor.submit(task) *)
generate_step_image_callback(recipe, step) ==
    /\ Len(tasks) < quota.tasks
    /\ tasks' = Submit(tasks, CallbackTask(step.id, step.step_number, step.instruction,
                                           recipe.id, recipe.title))
    /\ UNCHANGED <<db, sv, mgr, sv2, storage, futures, wt, backend, quota>>

(* variant: only the results of successful tasks are collected *)
WaitNextDropping(w, result) ==
    [w EXCEPT !.results = IF result.success THEN Append(@, result) ELSE @,
              !.n = @ + 1,
              !.pc = IF w.n = Len(w.futures) THEN "done" ELSE "waiting"]

(* the loop of wait_for_all_images after the n-th future *)
WaitNext(w, result) ==
    [w EXCEPT !.results = Append(@, result),
              !.n = @ + 1,
              !.pc = IF w.n = Len(w.futures) THEN "done" ELSE "waiting"]

(* wait_for_all_images(futures, timeout) is entered by the caller that holds
   the list of Futures; a caller waits once on the list it was given *)
wait_for_all_images(timeout) ==
    /\ wt.pc \in {"idle", "done"}
    /\ futures # <<>>
    /\ wt' = [pc |-> "waiting", n |-> 1, timeout |-> timeout, futures |-> futures,
              results |-> <<>>, expired |-> FALSE]
    /\ futures' = <<>>
    /\ UNCHANGED <<db, sv, mgr, sv2, tasks, storage, backend, quota>>

(* future.result(timeout=timeout) returns what the task returned *)
future_result ==
    /\ wt.pc = "waiting"
    /\ tasks[wt.futures[wt.n]].st = "done"
    /\ wt' = WaitNext(wt, tasks[wt.futures[wt.n]].result)
    /\ UNCHANGED <<db, sv, mgr, sv2, tasks, storage, futures, backend, quota>>

(* variant: the wait cancels the work item whose Future timed out *)
future_timeout_cancels ==
    /\ wt.pc = "waiting"
    /\ wt.timeout
    /\ tasks[wt.futures[wt.n]].st # "done"
    /\ wt' = [WaitNext(wt, TimeoutResult) EXCEPT !.expired = TRUE]
    /\ tasks' = [tasks EXCEPT ![wt.futures[wt.n]].st = "done",
                              ![wt.futures[wt.n]].result = TimeoutResult]
    /\ UNCHANGED <<db, sv, mgr, sv2, storage, futures, backend, quota>>

(* future.result(timeout=timeout) raises TimeoutError: the task is not done *)
future_timeout ==
    /\ wt.pc = "waiting"
    /\ wt.timeout
    /\ tasks[wt.futures[wt.n]].st # "done"
    /\ wt' = [WaitNext(wt, TimeoutResult) EXCEPT !.expired = TRUE]
    /\ UNCHANGED <<db, sv, mgr, sv2, tasks, storage, futures, backend, quota>>

----------------------------------------------------------------------------
(* The persistence service: both save paths, database calls that may raise *)

wt0 == [pc |-> "idle", n |-> 0, timeout |-> FALSE, futures |-> <<>>, results |-> <<>>,
        expired |-> FALSE]

Init ==
    /\ recipes = {} /\ ingredients = {} /\ equipment = {}
    /\ recipe_ingredients = {} /\ recipe_equipment = {} /\ recipe_steps = {}
    /\ step_ingredients = {} /\ step_equipment = {}
    /\ lastId = [t \in {"recipes", "ingredients", "equipment", "recipe_ingredients",
                        "recipe_equipment", "recipe_steps", "step_ingredients",
                        "step_equipment"} |-> 0]
    /\ sv = sv0
    /\ mgr = [title |-> Absent, outcome |-> "idle", writes |-> 0]
    /\ sv2 = sv20
    /\ tasks = <<>>
    /\ storage = {}
    /\ futures = <<>>
    /\ wt = wt0
    /\ backend = "stable_diffusion"
    /\ quota = [saves |-> MaxSaves, faults |-> MaxDbFaults, calls |-> SaveCalls,
                tasks |-> MaxTasks]

NextSave ==
    \/ \E call \in quota.calls : _get_existing_recipe_by_title(call)
    \/ _delete_recipe_data_select
    \/ _delete_recipe_data_step_ingredients
    \/ _delete_recipe_data_step_equipment
    \/ _delete_recipe_data_steps
    \/ _delete_recipe_data_ingredients
    \/ _delete_recipe_data_equipment
    \/ _update_recipe
    \/ _insert_recipe
    \/ _get_or_create_ingredient_select
    \/ _get_or_create_ingredient_insert
    \/ _insert_recipe_ingredients
    \/ _get_or_create_equipment_select
    \/ _get_or_create_equipment_insert
    \/ _insert_recipe_equipment
    \/ _insert_recipe_steps
    \/ _insert_step_ingredients_select
    \/ _insert_step_ingredients_lookup
    \/ _insert_step_ingredients
    \/ _insert_step_equipment_select
    \/ _insert_step_equipment_lookup
    \/ _insert_step_equipment
    \/ generate_step_image_async
    \/ \E call \in quota.calls : save_recipe(call.data)

Next == NextSave

Spec == Init /\ [][Next]_vars

----------------------------------------------------------------------------
(* The dispatcher over a saved recipe: the pool, its callers *)

NextTasks ==
    \/ \E t \in Handles : task_start(t)
    \/ \E t \in Handles : fetch_step_context(t)
    \/ \E t \in Handles : generate_image(t)
    \/ \E t \in Handles : download_image(t)
    \/ \E t \in Handles : upload_file_to_oci(t)
    \/ \E t \in Handles : update_recipe_step_image(t)
    \/ \E t \in Handles : task_error(t)

NextCallers ==
    \/ \E r \in recipes, c \in BOOLEAN :
          \E steps \in StepLists(r.id) : generate_all_step_images_parallel(r, steps, c)
    \/ \E timeout \in BOOLEAN : wait_for_all_images(timeout)
    \/ future_result
    \/ future_timeout

(* the database after save_recipe_to_db(Omelette, False) *)
SavedOmelette ==
    /\ recipes = {[id |-> 1, title |-> <<"s">>]}
    /\ ingredients = {[id |-> 1, name |-> <<"e">>]}
    /\ equipment = {[id |-> 1, name |-> <<"p">>]}
    /\ recipe_ingredients = {IngredientLink(1, 1, 1, Omelette.ingredients[1])}
    /\ recipe_equipment = {EquipmentLink(1, 1, 1, Omelette.equipment[1])}
    /\ recipe_steps = {StepRow(1, 1, Omelette.steps[1]), StepRow(2, 1, Omelette.steps[2])}
    /\ step_ingredients = {[id |-> 1, step_id |-> 1, ingredient_id |-> 1]}
    /\ step_equipment = {[id |-> 1, step_id |-> 2, equipment_id |-> 1]}
    /\ lastId = [t \in {"recipes", "ingredients", "equipment", "recipe_ingredients",
                        "recipe_equipment", "recipe_steps", "step_ingredients",
                        "step_equipment"} |-> IF t = "recipe_steps" THEN 2 ELSE 1]
    /\ sv = sv0
    /\ mgr = [title |-> Absent, outcome |-> "idle", writes |-> 0]
    /\ sv2 = sv20
    /\ tasks = <<>>
    /\ storage = {}
    /\ futures = <<>>
    /\ wt = wt0

InitImg ==
    /\ SavedOmelette
    /\ backend \in {"stable_diffusion", "dalle"}
    /\ quota = [saves |-> 0, faults |-> MaxDbFaults, calls |-> {}, tasks |-> MaxTasks]

NextImg == NextTasks \/ NextCallers

SpecImg == InitImg /\ [][NextImg]_vars

(* the pool's worker threads run: a work item that can take a step takes one *)
SpecImgFair == SpecImg /\ WF_vars(NextTasks)

----------------------------------------------------------------------------
(* The pool under more work items than workers: both submitters, over a    *)
(* saved recipe whose image is stored; no database call raises.             *)

NextSubmitters ==
    \/ \E r \in recipes : generate_all_step_images_parallel(r, StepsOf(r.id), TRUE)
    \/ \E r \in recipes : \E step \in {x \in recipe_steps : x.recipe_id = r.id} :
          generate_step_image_callback(r, step)

(* the database after save_recipe_to_db(Toast, False) and the object store
   after the image of its step was generated *)
InitPool ==
    /\ recipes = {[id |-> 1, title |-> Toast.title]}
    /\ ingredients = {[id |-> 1, name |-> <<"e">>]}
    /\ equipment = {[id |-> 1, name |-> <<"p">>]}
    /\ recipe_ingredients = {IngredientLink(1, 1, 1, Toast.ingredients[1])}
    /\ recipe_equipment = {EquipmentLink(1, 1, 1, Toast.equipment[1])}
    /\ recipe_steps = WithStepImage({StepRow(1, 1, Toast.steps[1])}, 1,
                                    get_object_url(Filename(1, 1)), "generated")
    /\ step_ingredients = {[id |-> 1, step_id |-> 1, ingredient_id |-> 1]}
    /\ step_equipment = {[id |-> 1, step_id |-> 1, equipment_id |-> 1]}
    /\ lastId = [t \in {"recipes", "ingredients", "equipment", "recipe_ingredients",
                        "recipe_equipment", "recipe_steps", "step_ingredients",
                        "step_equipment"} |-> 1]
    /\ sv = sv0
    /\ mgr = [title |-> Absent, outcome |-> "idle", writes |-> 0]
    /\ sv2 = sv20
    /\ tasks = <<>>
    /\ storage = {Filename(1, 1)}
    /\ futures = <<>>
    /\ wt = wt0
    /\ backend = "stable_diffusion"
    /\ quota = [saves |-> 0, faults |-> 0, calls |-> {}, tasks |-> MaxPoolTasks]

(* every item is submitted with check_existing and finds its object stored,
   so of generate_and_store_step_image only the short cut is ever taken *)
NextPool ==
    \/ \E t \in Handles : task_start(t)
    \/ \E t \in Handles : update_recipe_step_image(t)
    \/ \E t \in Handles : task_error(t)
    \/ NextSubmitters

SpecPool == InitPool /\ [][NextPool]_vars

----------------------------------------------------------------------------
(* The pipeline: saves of one recipe while the pool works on their items;   *)
(* no database call raises.                                                 *)

InitPipeline ==
    /\ recipes = {} /\ ingredients = {} /\ equipment = {}
    /\ recipe_ingredients = {} /\ recipe_equipment = {} /\ recipe_steps = {}
    /\ step_ingredients = {} /\ step_equipment = {}
    /\ lastId = [t \in {"recipes", "ingredients", "equipment", "recipe_ingredients",
                        "recipe_equipment", "recipe_steps", "step_ingredients",
                        "step_equipment"} |-> 0]
    /\ sv = sv0
    /\ mgr = [title |-> Absent, outcome |-> "idle", writes |-> 0]
    /\ sv2 = sv20
    /\ tasks = <<>>
    /\ storage = {}
    /\ futures = <<>>
    /\ wt = wt0
    /\ backend = "stable_diffusion"
    /\ quota = [saves |-> MaxSaves, faults |-> 0, calls |-> {[data |-> Toast, auto |-> TRUE]},
                tasks |-> MaxTasks]

NextPipeline == NextSave \/ NextTasks

SpecPipeline == InitPipeline /\ [][NextPipeline]_vars

----------------------------------------------------------------------------
(* One save over a saved recipe while the pool works on the items of the    *)
(* save; database calls may raise.                                          *)

InitSteps ==
    /\ SavedOmelette
    /\ backend = "stable_diffusion"
    /\ quota = [saves |-> 1, faults |-> MaxDbFaults,
                calls |-> {[data |-> Omelette, auto |-> TRUE],
                           [data |-> Wild, auto |-> TRUE],
                           [data |-> Salad, auto |-> TRUE]},
                tasks |-> MaxTasks]

SpecSteps == InitSteps /\ [][NextPipeline]_vars

----------------------------------------------------------------------------
(* Versions: saves of one title whose step is rewritten between them, while *)
(* the pool works on the items of either version; no database call raises.  *)

InitVersions ==
    /\ recipes = {} /\ ingredients = {} /\ equipment = {}
    /\ recipe_ingredients = {} /\ recipe_equipment = {} /\ recipe_steps = {}
    /\ step_ingredients = {} /\ step_equipment = {}
    /\ lastId = [t \in {"recipes", "ingredients", "equipment", "recipe_ingredients",
                        "recipe_equipment", "recipe_steps", "step_ingredients",
                        "step_equipment"} |-> 0]
    /\ sv = sv0
    /\ mgr = [title |-> Absent, outcome |-> "idle", writes |-> 0]
    /\ sv2 = sv20
    /\ tasks = <<>>
    /\ storage = {}
    /\ futures = <<>>
    /\ wt = wt0
    /\ backend = "stable_diffusion"
    /\ quota = [saves |-> MaxSaves, faults |-> 0,
                calls |-> {[data |-> Toast, auto |-> TRUE],
                           [data |-> ToastAgain, auto |-> TRUE]},
                tasks |-> MaxTasks]

SpecVersions == InitVersions /\ [][NextPipeline]_vars

----------------------------------------------------------------------------
(* Saves beside a saved recipe: of a second title, of the saved title, and  *)
(* of a title that is a pattern for both; database calls may raise.         *)

InitOthers ==
    /\ SavedOmelette
    /\ backend = "stable_diffusion"
    /\ quota = [saves |-> MaxSaves, faults |-> MaxDbFaults,
                calls |-> {[data |-> Salad, auto |-> TRUE],
                           [data |-> Omelette, auto |-> TRUE],
                           [data |-> Wild, auto |-> TRUE]},
                tasks |-> MaxTasks]

SpecOthers == InitOthers /\ [][NextSave]_vars

----------------------------------------------------------------------------
(* Two request threads: save_recipe_to_db(Garnish, False) runs on a second  *)
(* thread while the first thread saves.  Garnish has a title, one           *)
(* ingredient, no equipment and no steps, so these are all its calls.       *)

Other(s) == sv2' = s

(* _get_existing_recipe_by_title: no recipe has the title *)
save_recipe_to_db_2 ==
    /\ sv2.pc = "idle"
    /\ TitleMatches(Garnish.title) = {}
    /\ Other([sv2 EXCEPT !.pc = "insert"])
    /\ UNCHANGED <<db, sv, mgr, imgVars, quota>>

(* _insert_recipe *)
_insert_recipe_2 ==
    /\ sv2.pc = "insert"
    /\ recipes' = recipes \cup {[id |-> NewId("recipes"), title |-> Garnish.title]}
    /\ lastId' = [lastId EXCEPT !["recipes"] = @ + 1]
    /\ Other([sv2 EXCEPT !.pc = "ing_select", !.recipe_id = NewId("recipes")])
    /\ UNCHANGED <<ingredients, equipment, recipe_ingredients, recipe_equipment,
                   recipe_steps, step_ingredients, step_equipment, sv, mgr, imgVars, quota>>

(* _get_or_create_ingredient: select("id").ilike("name", name).limit(1) *)
_get_or_create_ingredient_select_2 ==
    /\ sv2.pc = "ing_select"
    /\ LET found == NameMatches(ingredients, Garnish.ingredients[1].name)
       IN  \/ found = {} /\ Other([sv2 EXCEPT !.pc = "ing_create"])
           \/ \E r \in found : Other([sv2 EXCEPT !.pc = "ing_link", !.ing_id = r.id])
    /\ UNCHANGED <<db, sv, mgr, imgVars, quota>>

(* _get_or_create_ingredient: table("ingredients").insert({"name": name}) *)
_get_or_create_ingredient_insert_2 ==
    /\ sv2.pc = "ing_create"
    /\ ingredients' = ingredients \cup
           {[id |-> NewId("ingredients"), name |-> Garnish.ingredients[1].name]}
    /\ lastId' = [lastId EXCEPT !["ingredients"] = @ + 1]
    /\ Other([sv2 EXCEPT !.pc = "ing_link", !.ing_id = NewId("ingredients")])
    /\ UNCHANGED <<recipes, equipment, recipe_ingredients, recipe_equipment,
                   recipe_steps, step_ingredients, step_equipment, sv, mgr, imgVars, quota>>

(* _insert_recipe_ingredients: the link row; then return recipe_id *)
_insert_recipe_ingredients_2 ==
    /\ sv2.pc = "ing_link"
    /\ recipe_ingredients' = recipe_ingredients \cup
           {IngredientLink(NewId("recipe_ingredients"), sv2.recipe_id, sv2.ing_id,
                           Garnish.ingredients[1])}
    /\ lastId' = [lastId EXCEPT !["recipe_ingredients"] = @ + 1]
    /\ Other([sv2 EXCEPT !.pc = "done", !.ing_id = None, !.result = sv2.recipe_id])
    /\ UNCHANGED <<recipes, ingredients, equipment, recipe_equipment,
                   recipe_steps, step_ingredients, step_equipment, sv, mgr, imgVars, quota>>

NextOther ==
    \/ save_recipe_to_db_2
    \/ _insert_recipe_2
    \/ _get_or_create_ingredient_select_2
    \/ _get_or_create_ingredient_insert_2
    \/ _insert_recipe_ingredients_2

NextRace == NextSave \/ NextOther

SpecRace == InitPipeline /\ [][NextRace]_vars

----------------------------------------------------------------------------
(* What a finished call of save_recipe_to_db has left in the database.      *)

SaveDone == sv.pc = "done"

(* the entries of a submission the helpers do not skip *)
Named(items) == SelectSeq(items, LAMBDA x : x.name # Absent)
Instructed(steps) == SelectSeq(steps, LAMBDA x : x.instruction # Absent)

(* a submission as the rows it asks for, names in one case *)
SubmittedIngredients(items) ==
    [n \in 1..Len(items) |-> [name |-> Fold(items[n].name), quantity |-> items[n].quantity]]
SubmittedEquipment(items) == [n \in 1..Len(items) |-> Fold(items[n].name)]
SubmittedSteps(steps) ==
    [n \in 1..Len(steps) |->
        [step_number |-> StepNumberOf(steps[n]), instruction |-> steps[n].instruction]]

(* the child rows of a recipe, in insertion order *)
StoredIngredients(recipe_id) ==
    LET rows == ById({r \in recipe_ingredients : r.recipe_id = recipe_id})
    IN  [n \in 1..Len(rows) |-> [name |-> Fold(rows[n].name), quantity |-> rows[n].quantity]]
StoredEquipment(recipe_id) ==
    LET rows == ById({r \in recipe_equipment : r.recipe_id = recipe_id})
    IN  [n \in 1..Len(rows) |-> Fold(rows[n].name)]
StoredSteps(recipe_id) ==
    LET rows == ById({r \in recipe_steps : r.recipe_id = recipe_id})
    IN  [n \in 1..Len(rows) |->
            [step_number |-> rows[n].step_number, instruction |-> rows[n].instruction]]

(* the step rows the current call inserted, in insertion order *)
NewStepRows ==
    ById({r \in recipe_steps : r.recipe_id = sv.recipe_id /\ r.id > sv.base.recipe_steps})

(* the work items the current call submitted *)
NewTasks == SubSeq(tasks, sv.base.tasks + 1, Len(tasks))

JoinRows(table, step_id) == {j \in table : j.step_id = step_id}

(* the references of a step that name a row of the recipe: by the LIKE
   comparison of the lookup, and by equality of the names in one case *)
ResolvedLike(refs, table, recipe_id) ==
    {k \in 1..Len(refs) :
        refs[k] # Absent /\ \E r \in table : r.recipe_id = recipe_id /\ ilike(refs[k], r.name)}
ResolvedEqual(refs, table, recipe_id) ==
    {k \in 1..Len(refs) :
        refs[k] # Absent /\ \E r \in table : r.recipe_id = recipe_id
                                              /\ Fold(r.name) = Fold(refs[k])}

(* every child row of the recipe was written by the current call *)
OnlyNewRows(recipe_id) ==
    /\ \A r \in recipe_ingredients : r.recipe_id = recipe_id => r.id > sv.base.recipe_ingredients
    /\ \A r \in recipe_equipment : r.recipe_id = recipe_id => r.id > sv.base.recipe_equipment
    /\ \A r \in recipe_steps : r.recipe_id = recipe_id => r.id > sv.base.recipe_steps
    /\ \A j \in step_ingredients :
          (\E r \in recipe_steps : r.id = j.step_id /\ r.recipe_id = recipe_id)
              => j.id > sv.base.step_ingredients
    /\ \A j \in step_equipment :
          (\E r \in recipe_steps : r.id = j.step_id /\ r.recipe_id = recipe_id)
              => j.id > sv.base.step_equipment

(* every join row points at a step row and at a row of that step's recipe *)
NoOrphans ==
    /\ \A j \in step_ingredients :
          \E r \in recipe_steps : \E l \in recipe_ingredients :
              r.id = j.step_id /\ l.id = j.ingredient_id /\ l.recipe_id = r.recipe_id
    /\ \A j \in step_equipment :
          \E r \in recipe_steps : \E l \in recipe_equipment :
              r.id = j.step_id /\ l.id = j.equipment_id /\ l.recipe_id = r.recipe_id

(* the join rows of the new steps are one per reference that the lookup resolves *)
JoinsAsResolved ==
    LET steps == Instructed(sv.data.steps)
        rows == NewStepRows
    IN  /\ Len(rows) = Len(steps)
        /\ \A n \in 1..Len(rows) :
              /\ Cardinality(JoinRows(step_ingredients, rows[n].id))
                   = Cardinality(ResolvedLike(steps[n].ingredients, recipe_ingredients,
                                              sv.recipe_id))
              /\ Cardinality(JoinRows(step_equipment, rows[n].id))
                   = Cardinality(ResolvedLike(steps[n].equipment, recipe_equipment,
                                              sv.recipe_id))

(* the child rows are the entries of the submission the helpers keep *)
KeptRows(recipe_id) ==
    /\ StoredIngredients(recipe_id) = SubmittedIngredients(Named(sv.data.ingredients))
    /\ StoredEquipment(recipe_id) = SubmittedEquipment(Named(sv.data.equipment))
    /\ StoredSteps(recipe_id) = SubmittedSteps(Instructed(sv.data.steps))

(* the child rows are every entry of the submission *)
SubmittedRows(recipe_id) ==
    /\ StoredIngredients(recipe_id) = SubmittedIngredients(sv.data.ingredients)
    /\ StoredEquipment(recipe_id) = SubmittedEquipment(sv.data.equipment)
    /\ StoredSteps(recipe_id) = SubmittedSteps(sv.data.steps)

----------------------------------------------------------------------------
(* C1, as stated: a save whose title equals no stored title returns an id,
   and the rows of that id are the submitted ingredients, equipment and steps,
   entry for entry. *)
C1_AllSubmittedRows ==
    (SaveDone /\ ~sv.faulted /\ sv.same = {})
        => sv.result # None /\ SubmittedRows(sv.result)

(* C1: when no database call fails, a save whose title equals no stored title
   returns a non-null id, and the rows of that id are the submitted ingredients
   and equipment that have a name and the submitted steps that have an
   instruction, in the submitted order with the submitted fields. *)
C1_SaveNewRecipe ==
    (SaveDone /\ ~sv.faulted /\ sv.same = {})
        => sv.result # None /\ KeptRows(sv.result)

(* a title equal to none stored, with a nameless ingredient and a step without
   instruction among the entries, saved without failure *)
C1_Witness ==
    /\ SaveDone /\ ~sv.faulted /\ sv.same = {}
    /\ sv.data = OmeletteAgain
    /\ sv.result # None
    /\ Len(StoredSteps(sv.result)) = 1

(* C2, as stated: a save whose title equals a stored title but for case
   returns that recipe's id, and the child rows of the id are those of the new
   submission, none left from before. *)
C2_AllSubmittedRowsReplaced ==
    (SaveDone /\ ~sv.faulted /\ sv.same # {})
        => /\ sv.result \in sv.same
           /\ SubmittedRows(sv.result)
           /\ OnlyNewRows(sv.result)
           /\ NoOrphans

(* C2: when no database call fails, a save whose title equals a stored title
   but for case returns the id of a recipe that the title matches under the
   case-insensitive LIKE comparison of the lookup, which is a recipe of that
   title whenever the title matches no other; the child rows of the id are
   the entries of the new submission that are not skipped, all written by
   this call; each new step has one join row per resolved reference, and no
   join row is left without its step or its recipe row. *)
C2_OverwriteReplacesRows ==
    (SaveDone /\ ~sv.faulted /\ sv.same # {})
        => /\ sv.existing
           /\ sv.result \in sv.matched
           /\ sv.matched \subseteq sv.same => sv.result \in sv.same
           /\ KeptRows(sv.result)
           /\ OnlyNewRows(sv.result)
           /\ JoinsAsResolved
           /\ NoOrphans

(* the second save of a title, in another case, over a recipe that had rows *)
C2_Witness ==
    /\ SaveDone /\ ~sv.faulted /\ sv.same # {}
    /\ sv.data = OmeletteAgain
    /\ sv.existing
    /\ sv.base.recipe_steps = 2 /\ sv.base.step_ingredients = 1
    /\ sv.result \in sv.same

(* C3, as stated: a submission without title ends in a validation error and
   writes nothing, in both save paths. *)
C3_NoTitleNoWrite ==
    /\ (sv.pc # "idle" /\ sv.data.title = Absent)
          => sv.writes = 0 /\ (SaveDone => sv.error = "ValueError")
    /\ (mgr.outcome # "idle" /\ mgr.title = Absent)
          => mgr.writes = 0 /\ mgr.outcome = "raised"

(* C4, as stated: a call in which a database operation raised returns None. *)
C4_RaiseReturnsNone ==
    (SaveDone /\ sv.raised) => sv.result = None /\ sv.error = ""

(* C5, as stated: a reference whose name equals, but for case, the name of no
   row of the recipe gets no join row; the other references and the other
   steps are processed and the id is returned. *)
C5_UnequalNameNoJoin ==
    (SaveDone /\ ~sv.faulted)
        => LET steps == Instructed(sv.data.steps)
               rows == NewStepRows
           IN  /\ sv.result = sv.recipe_id /\ sv.result # None /\ sv.error = ""
               /\ Len(rows) = Len(steps)
               /\ \A n \in 1..Len(rows) :
                     /\ Cardinality(JoinRows(step_ingredients, rows[n].id))
                          = Cardinality(ResolvedEqual(steps[n].ingredients,
                                                      recipe_ingredients, sv.recipe_id))
                     /\ Cardinality(JoinRows(step_equipment, rows[n].id))
                          = Cardinality(ResolvedEqual(steps[n].equipment,
                                                      recipe_equipment, sv.recipe_id))

(* C6: the work items a call has submitted are, in order, one per step row it
   inserted, each with the row's id, step number and instruction, the recipe
   id and the submitted title; a finished call with auto_generate_images has
   submitted one for every row it inserted, and a call without it none. *)
C6_OneTaskPerInsertedStep ==
    sv.pc # "idle"
        => LET rows == NewStepRows
               mine == NewTasks
           IN  /\ Len(mine) <= Len(rows)
               /\ \A n \in 1..Len(mine) :
                     /\ mine[n].step_id = rows[n].id
                     /\ mine[n].step_number = rows[n].step_number
                     /\ mine[n].step_instruction = rows[n].instruction
                     /\ mine[n].recipe_id = sv.recipe_id
                     /\ sv.data.title # Absent => mine[n].recipe_title = sv.data.title
               /\ (SaveDone /\ sv.auto) => Len(mine) = Len(rows)
               /\ ~sv.auto => Len(mine) = 0

(* a finished call with auto_generate_images that skipped a step and
   submitted a work item for the step it inserted *)
C6_Witness ==
    /\ SaveDone /\ sv.auto
    /\ sv.data = OmeletteAgain
    /\ Len(NewStepRows) = 1 /\ Len(NewTasks) = 1
    /\ NewTasks[1].step_id = NewStepRows[1].id

----------------------------------------------------------------------------
(* C7: generate_step_image_async leaves the work item it submitted queued,
   with no result and no collaborator called, and changes neither the
   database nor the object store nor any other work item; and whatever the
   work items are doing, a save that has begun can take its next step. *)
C7_SaveNeverWaits ==
    /\ [](sv.pc \notin {"idle", "done"} => ENABLED NextSave)
    /\ [][Len(tasks') > Len(tasks)
            => /\ Len(tasks') = Len(tasks) + 1
               /\ SubSeq(tasks', 1, Len(tasks)) = tasks
               /\ tasks'[Len(tasks')].st = "queued"
               /\ tasks'[Len(tasks')].result = NoResult
               /\ tasks'[Len(tasks')].called = {}
               /\ recipe_steps' = recipe_steps
               /\ storage' = storage
               /\ sv'.pc # "dispatch"]_vars

(* save_recipe_to_db has returned the recipe id; the work item it submitted is
   not finished and no step of the recipe has an image yet *)
C7_Witness ==
    /\ SaveDone /\ sv.auto /\ sv.result # None
    /\ sv.base.tasks = 1
    /\ Len(NewTasks) = 1
    /\ NewTasks[1].st \in {"queued", "generate"}
    /\ \A r \in recipe_steps : r.recipe_id = sv.result => r.image_url = Absent
    /\ \E r \in recipe_steps : r.recipe_id = sv.result

----------------------------------------------------------------------------
WaitDone == wt.pc = "done"

(* C8: a wait in which no future timed out returns one result per handle, the
   i-th being what the i-th handle's task returned, and every result carries
   the step id its task was submitted with: success, failure and internal
   exception alike. *)
C8_OneResultPerHandleInOrder ==
    (WaitDone /\ ~wt.expired)
        => /\ Len(wt.results) = Len(wt.futures)
           /\ \A i \in 1..Len(wt.futures) :
                 /\ i <= Len(wt.results)
                 /\ wt.results[i] = tasks[wt.futures[i]].result
                 /\ "step_id" \in DOMAIN wt.results[i]
                 /\ wt.results[i].step_id = tasks[wt.futures[i]].step_id

(* two handles waited for without timeout: the first task succeeded, the
   second failed *)
C8_Witness ==
    /\ WaitDone /\ ~wt.expired
    /\ Len(wt.results) = 2
    /\ wt.results[1].success
    /\ wt.results[2] = FailureResult(tasks[wt.futures[2]].step_id)

(* C9, as stated: the list has one entry per handle, and the entry of every
   handle whose task timed out or failed has success false and an error
   field. *)
C9_FailedEntriesCarryError ==
    WaitDone
        => /\ Len(wt.results) = Len(wt.futures)
           /\ \A i \in 1..Len(wt.results) :
                 ~wt.results[i].success => "error" \in DOMAIN wt.results[i]

(* C9: wait_for_all_images ends with one entry per handle, in handle order;
   the entry of a handle that timed out is {success: false, error}; the entry
   of any other handle is what its task returned, which for a task that raised
   is {success: false, step_id, error} and for a task whose generation
   returned nothing is {success: false, step_id}, without an error field. *)
C9_OneEntryPerHandle ==
    /\ wt.pc = "waiting" => Len(wt.results) = wt.n - 1 /\ wt.n <= Len(wt.futures)
    /\ WaitDone
          => /\ Len(wt.results) = Len(wt.futures)
             /\ \A i \in 1..Len(wt.futures) :
                   /\ i <= Len(wt.results)
                   /\ LET r == wt.results[i]
                          task == tasks[wt.futures[i]]
                      IN  \/ /\ wt.expired
                             /\ r = TimeoutResult
                             /\ ~r.success /\ "error" \in DOMAIN r
                          \/ /\ task.st = "done"
                             /\ r = task.result
                             /\ ~r.success
                                   => r \in {FailureResult(task.step_id),
                                             ErrorResult(task.step_id)}

(* two handles waited for with a timeout: the first task failed without
   raising, the second was not finished in time *)
C9_Witness ==
    /\ WaitDone /\ wt.expired
    /\ Len(wt.results) = 2
    /\ wt.results[1] = FailureResult(tasks[wt.futures[1]].step_id)
    /\ wt.results[2] = TimeoutResult
    /\ tasks[wt.futures[2]].st # "done"

(* C10: a work item with check_existing that enters generation after another
   for the same recipe and step number has returned an image gets the dict
   tagged skipped with the URL the earlier one returned, and calls neither
   the image generator nor the download nor the upload. *)
C10_SecondGenerationSkipped ==
    \A t \in Handles :
        (tasks[t].prior /\ tasks[t].check_existing)
            => /\ tasks[t].image_data =
                      ExistingImage(Filename(tasks[t].recipe_id, tasks[t].step_number))
               /\ tasks[t].image_data.skipped
               /\ tasks[t].called \cap {"generate", "download", "upload"} = {}
               /\ \E u \in Handles \ {t} :
                     /\ tasks[u].recipe_id = tasks[t].recipe_id
                     /\ tasks[u].step_number = tasks[t].step_number
                     /\ tasks[u].image_data # NoResult
                     /\ tasks[u].image_data.image_url = tasks[t].image_data.image_url
               /\ (tasks[t].st = "done" /\ tasks[t].result.success)
                     => /\ "skipped" \in DOMAIN tasks[t].result
                        /\ tasks[t].result.skipped
                        /\ tasks[t].result.image_url = tasks[t].image_data.image_url

(* the first work item generated and uploaded the image; the second, for the
   same step and with check_existing, finished tagged skipped *)
C10_Witness ==
    \E t \in Handles : \E u \in Handles \ {t} :
        /\ tasks[u].recipe_id = tasks[t].recipe_id
        /\ tasks[u].step_number = tasks[t].step_number
        /\ "upload" \in tasks[u].called
        /\ tasks[u].image_data # NoResult
        /\ tasks[t].prior /\ tasks[t].check_existing
        /\ tasks[t].st = "done"
        /\ tasks[t].result = SuccessResult(tasks[t].step_id, tasks[t].image_data)
        /\ tasks[t].result.skipped

----------------------------------------------------------------------------
(* the objects stored for a step of a recipe *)
ObjectsFor(recipe_id, step_number) ==
    {f \in storage : f[1] = recipe_id /\ f[2] = step_number}

(* the work items that went through the upload for a step of a recipe *)
Uploaded(recipe_id, step_number) ==
    {t \in Handles : /\ tasks[t].recipe_id = recipe_id
                     /\ tasks[t].step_number = step_number
                     /\ "upload" \in tasks[t].called
                     /\ tasks[t].image_data # NoResult}

(* C11: whatever work items have run for a recipe and step number, in any
   interleaving and with check_existing true or false, the object store holds
   at most one object for the pair, and every stored object is the target of
   a work item that uploaded it. *)
C11_OneObjectPerStep ==
    /\ \A t \in Handles :
          Cardinality(ObjectsFor(tasks[t].recipe_id, tasks[t].step_number)) <= 1
    /\ \A f \in storage :
          \E t \in Handles : /\ f \in ObjectsFor(tasks[t].recipe_id, tasks[t].step_number)
                             /\ t \in Uploaded(tasks[t].recipe_id, tasks[t].step_number)

(* two work items for one step have both uploaded, and one object is stored *)
C11_Witness ==
    \E t \in Handles :
        /\ Cardinality(Uploaded(tasks[t].recipe_id, tasks[t].step_number)) = 2
        /\ Cardinality(ObjectsFor(tasks[t].recipe_id, tasks[t].step_number)) = 1

----------------------------------------------------------------------------
(* C12: at most max_workers work items are being executed at once, whichever
   of generate_step_image_async and generate_step_image_callback submitted
   them; an item is submitted queued, and a queued item is taken up only in a
   state where fewer than max_workers items are being executed. *)
C12_AtMostFiveRunning ==
    /\ [](Cardinality(Running) <= max_workers)
    /\ [][/\ \A t \in DOMAIN tasks' : t \notin DOMAIN tasks => tasks'[t].st = "queued"
          /\ \A t \in DOMAIN tasks :
                (tasks[t].st = "queued" /\ tasks'[t].st # "queued")
                    => Cardinality(Running) < max_workers]_vars

(* five items of both submitters are being executed and a sixth is queued *)
C12_Witness ==
    /\ Cardinality(Running) = max_workers
    /\ Queued # {}
    /\ \E t \in Running : tasks[t].callback
    /\ \E t \in Running : ~tasks[t].callback

----------------------------------------------------------------------------
(* the work items whose own calls all succeeded, up to the step update *)
OwnCallsSucceeded(t) == tasks[t].st = "done" /\ "update" \in tasks[t].called

(* C13: every submitted work item eventually resolves its Future, and with a
   result dict, not an exception; an item whose own generation, download,
   upload and update were reached ends with success true, whatever happened
   to the other items. *)
C13_FailureStaysInItsTask ==
    /\ [](\A t \in Handles :
            tasks[t].st = "done"
                => /\ "success" \in DOMAIN tasks[t].result
                   /\ "step_id" \in DOMAIN tasks[t].result
                   /\ OwnCallsSucceeded(t)
                         => tasks[t].result = SuccessResult(tasks[t].step_id,
                                                            tasks[t].image_data))
    /\ \A t \in 1..MaxTasks : (t \in Handles) ~> (t \in Handles /\ tasks[t].st = "done")

(* the first work item failed in generation, download or upload; the second,
   submitted with it, ended with success true *)
C13_Witness ==
    /\ Len(tasks) = 2
    /\ tasks[1].st = "done" /\ tasks[1].result = FailureResult(tasks[1].step_id)
    /\ "generate" \in tasks[1].called
    /\ OwnCallsSucceeded(2) /\ tasks[2].result.success
    /\ "upload" \in tasks[2].called

----------------------------------------------------------------------------
(* C14, as stated: no two rows of the recipes table carry titles that are
   equal but for case. *)
C14_TitleIsUniqueKey ==
    \A a, b \in recipes :
        (a.title # Absent /\ Fold(a.title) = Fold(b.title)) => a.id = b.id

----------------------------------------------------------------------------
(* the ids of the rows of a table *)
Ids(rows) == {r.id : r \in rows}

(* no row leaves the database in this step *)
RowsStay ==
    /\ Ids(recipes) \subseteq Ids(recipes')
    /\ Ids(ingredients) \subseteq Ids(ingredients')
    /\ Ids(equipment) \subseteq Ids(equipment')
    /\ Ids(recipe_ingredients) \subseteq Ids(recipe_ingredients')
    /\ Ids(recipe_equipment) \subseteq Ids(recipe_equipment')
    /\ Ids(recipe_steps) \subseteq Ids(recipe_steps')
    /\ Ids(step_ingredients) \subseteq Ids(step_ingredients')
    /\ Ids(step_equipment) \subseteq Ids(step_equipment')

(* C15, as stated: once a database operation has raised in a call of
   save_recipe_to_db, the call issues no further write, and no row that was
   there at the failure is removed. *)
C15_NoWriteAfterRaise ==
    [][(sv.raised /\ sv.pc # "done") => (sv'.writes = sv.writes /\ RowsStay)]_vars

----------------------------------------------------------------------------
(* C16: in every state of sequential saves, the ingredient_id of a
   step_ingredients row is the id of a recipe_ingredients row, and the
   equipment_id of a step_equipment row the id of a recipe_equipment row, of
   the recipe that the row's step belongs to. *)
C16_JoinsPointIntoOwnRecipe ==
    /\ \A j \in step_ingredients :
          /\ \E r \in recipe_steps : r.id = j.step_id
          /\ \A r \in recipe_steps :
                r.id = j.step_id
                    => \E l \in recipe_ingredients :
                          l.id = j.ingredient_id /\ l.recipe_id = r.recipe_id
    /\ \A j \in step_equipment :
          /\ \E r \in recipe_steps : r.id = j.step_id
          /\ \A r \in recipe_steps :
                r.id = j.step_id
                    => \E l \in recipe_equipment :
                          l.id = j.equipment_id /\ l.recipe_id = r.recipe_id

(* a join row whose ingredient_id differs from the id of the master row of
   that name, while that id is a recipe_ingredients row of another recipe *)
C16_Witness ==
    \E j \in step_ingredients : \E r \in recipe_steps :
    \E l \in recipe_ingredients : \E m \in ingredients : \E o \in recipe_ingredients :
        /\ r.id = j.step_id /\ l.id = j.ingredient_id /\ l.recipe_id = r.recipe_id
        /\ Fold(m.name) = Fold(l.name) /\ m.id # l.id
        /\ o.id = m.id /\ o.recipe_id # r.recipe_id

----------------------------------------------------------------------------
(* the child rows of the recipe the current call works on *)
OwnSteps == {r \in recipe_steps : r.recipe_id = sv.recipe_id}
OwnIngredients == {r \in recipe_ingredients : r.recipe_id = sv.recipe_id}
OwnEquipment == {r \in recipe_equipment : r.recipe_id = sv.recipe_id}
OwnStepIngredients == {j \in step_ingredients : j.step_id \in Ids(OwnSteps)}
OwnStepEquipment == {j \in step_equipment : j.step_id \in Ids(OwnSteps)}

(* this step removes rows of the table *)
Shrinks(rows, rowsNext) == ~(Ids(rows) \subseteq Ids(rowsNext))

(* the current call has inserted no child row yet *)
NothingInserted ==
    \A t \in {"recipe_ingredients", "recipe_equipment", "recipe_steps",
              "step_ingredients", "step_equipment"} : lastId[t] = sv.base[t]

(* no join row names a step or a recipe_* row that is gone *)
NoDanglingJoin ==
    /\ \A j \in step_ingredients :
          j.step_id \in Ids(recipe_steps) /\ j.ingredient_id \in Ids(recipe_ingredients)
    /\ \A j \in step_equipment :
          j.step_id \in Ids(recipe_steps) /\ j.equipment_id \in Ids(recipe_equipment)

(* the deletes of one overwrite, by what each finds and leaves *)
DeletesInOrder ==
    /\ (\/ Shrinks(step_ingredients, step_ingredients')
        \/ Shrinks(step_equipment, step_equipment')
        \/ Shrinks(recipe_steps, recipe_steps')
        \/ Shrinks(recipe_ingredients, recipe_ingredients')
        \/ Shrinks(recipe_equipment, recipe_equipment'))
          => /\ sv.existing /\ NothingInserted
             /\ sv.pc \in {"del_si", "del_se", "del_steps", "del_ri", "del_re"}
    /\ Shrinks(recipe_steps, recipe_steps')
          => OwnStepIngredients = {} /\ OwnStepEquipment = {}
    /\ Shrinks(recipe_ingredients, recipe_ingredients') => OwnSteps = {}
    /\ Shrinks(recipe_equipment, recipe_equipment')
          => OwnSteps = {} /\ OwnIngredients = {}
    /\ (sv.pc = "update" /\ sv'.pc # "update" /\ ~sv.faulted)
          => OwnSteps = {} /\ OwnIngredients = {} /\ OwnEquipment = {}

(* C17: an overwrite deletes step joins, then steps, then recipe_ingredients,
   then recipe_equipment, all of it before the recipe row is updated and
   before a new child row is inserted, and in no state of it does a join row
   name a deleted step or a deleted recipe_ingredients/recipe_equipment row. *)
C17_DeleteOrderOfOverwrite ==
    /\ [][DeletesInOrder]_vars
    /\ []((sv.existing /\ sv.pc # "done") => NoDanglingJoin)

(* an overwrite of a recipe that had steps, joins, ingredients and equipment
   has deleted them all and is about to update the recipe row *)
C17_Witness ==
    /\ sv.existing /\ sv.pc = "update" /\ ~sv.faulted
    /\ sv.base.step_ingredients > 0 /\ sv.base.step_equipment > 0
    /\ sv.base.recipe_ingredients > 0 /\ sv.base.recipe_equipment > 0
    /\ sv.writes >= 7
    /\ OwnSteps = {} /\ OwnIngredients = {} /\ OwnEquipment = {}
    /\ step_ingredients = {} /\ step_equipment = {}

----------------------------------------------------------------------------
(* the calls of one work item, by their place in generate_and_store_step_image
   and task() *)
Skipped(t) == "skipped" \in DOMAIN tasks[t].image_data

(* the stage a work item may be in one step before it is in stage st *)
EnteredFrom(t, stNext) ==
    LET task == tasks[t]
        present == object_exists(Filename(task.recipe_id, task.step_number))
    IN  CASE stNext = "fetch" ->
                task.st = "queued" /\ ~(task.check_existing /\ present)
          [] stNext = "generate" -> task.st = "fetch"
          [] stNext = "download" -> task.st = "generate"
          [] stNext = "upload" -> task.st = "download"
          [] stNext = "update" ->
                \/ task.st = "queued" /\ task.check_existing /\ present
                \/ task.st = "upload"
          [] OTHER -> TRUE

(* what the calls made so far say about the calls before them *)
CallsInOrder(t) ==
    LET c == tasks[t].called
    IN  /\ "generate" \in c => ~Skipped(t)
        /\ "download" \in c => "generate" \in c
        /\ "upload" \in c => "download" \in c
        /\ "update" \in c
              => /\ tasks[t].st = "done"
                 /\ \/ Skipped(t) /\ c = {"update"}
                    \/ /\ "upload" \in c
                       /\ Filename(tasks[t].recipe_id, tasks[t].step_number) \in storage

(* C18: within one image task the existence check, the generation, the
   download, the upload and the step update happen in this order only:
   generation after a check that found nothing (or no check), download after
   a generation that returned, upload after a download that returned, the step
   update after an upload that stored the object or after a skip, and nothing
   after the step update. *)
C18_EventsInOrder ==
    /\ [](\A t \in Handles : CallsInOrder(t))
    /\ [][\A t \in Handles :
            /\ tasks'[t].st # tasks[t].st => EnteredFrom(t, tasks'[t].st)
            /\ tasks'[t].called # tasks[t].called
                  => /\ "update" \notin tasks[t].called
                     /\ tasks[t].called \subseteq tasks'[t].called
                     /\ tasks'[t].called \ tasks[t].called \in
                           {{"generate"}, {"download"}, {"upload"}, {"update"}}
                     /\ tasks'[t].called \ tasks[t].called = {tasks[t].st}]_vars

(* one task has gone through generation, download, upload and step update, and
   another has skipped to the step update *)
C18_Witness ==
    \E t, u \in Handles :
        /\ tasks[t].called = {"generate", "download", "upload", "update"}
        /\ tasks[u].called = {"update"} /\ Skipped(u)
        /\ tasks[t].st = "done" /\ tasks[u].st = "done"

----------------------------------------------------------------------------
(* C19: one image task calls the image generator at most max_retries + 1 = 3
   times on Stable Diffusion, each call only while every earlier call of the
   task has failed, none after a call that returned an image; on DALL-E it
   calls it exactly once, without retry. *)
C19_AtMostThreeAttempts ==
    /\ [](\A t \in Handles :
            /\ tasks[t].attempt <= max_retries + 1
            /\ "generate" \in tasks[t].called <=> tasks[t].attempt >= 1
            /\ backend = "dalle" => tasks[t].attempt <= 1
            /\ (backend = "dalle" /\ tasks[t].st \in {"download", "upload", "update", "done"}
                  /\ "generate" \in tasks[t].called) => tasks[t].attempt = 1)
    /\ [][\A t \in Handles :
            tasks'[t].attempt # tasks[t].attempt
                => /\ tasks'[t].attempt = tasks[t].attempt + 1
                   /\ tasks[t].st = "generate"
                   /\ "download" \notin tasks[t].called
                   /\ tasks'[t].st \in {"generate", "download", "done"}
                   /\ tasks'[t].st = "generate" => tasks'[t].attempt <= max_retries]_vars

(* on Stable Diffusion one task has got its image at the third call of the
   generator and another has given up after three calls *)
C19_Witness ==
    /\ backend = "stable_diffusion"
    /\ \E t, u \in Handles :
          /\ tasks[t].attempt = max_retries + 1 /\ "download" \in tasks[t].called
          /\ tasks[u].attempt = max_retries + 1 /\ tasks[u].st = "done"
          /\ tasks[u].called = {"generate"}

----------------------------------------------------------------------------
(* the step in which a work item fails: it ends in the generation (all
   attempts failed), in the download or in the upload, in the context selects,
   or with the exception that task() caught *)
FailsNow(t) ==
    /\ tasks[t].st # "done" /\ tasks'[t].st = "done"
    /\ \/ tasks[t].st \in {"queued", "fetch", "generate", "download", "upload"}
       \/ "error" \in DOMAIN tasks'[t].result

(* the work items submitted for a step row that have ended with success *)
Succeeded(step_id) ==
    {t \in Handles : /\ tasks[t].step_id = step_id /\ tasks[t].st = "done"
                     /\ "success" \in DOMAIN tasks[t].result
                     /\ tasks[t].result.success}

(* C20: a work item that fails leaves the recipe_steps rows as they are
   (image_url, image_prompt and image_generated_at included), has not called
   update_recipe_step_image, resolves with success false, and leaves the value
   save_recipe_to_db returned as it is; a step row none of whose work items
   has succeeded carries no image. *)
C20_FailedTaskChangesNothing ==
    /\ [][\A t \in Handles :
            FailsNow(t)
                => /\ recipe_steps' = recipe_steps
                   /\ "update" \notin tasks'[t].called
                   /\ "success" \in DOMAIN tasks'[t].result
                   /\ ~tasks'[t].result.success
                   /\ sv' = sv]_vars
    /\ [](\A r \in recipe_steps :
            Succeeded(r.id) = {}
                => /\ r.image_url = Absent /\ r.image_prompt = ""
                   /\ r.image_generated_at = None)

(* a save has returned its id; of the work items of its step, one failed
   after three generation attempts and one in the upload, and the step row
   carries no image *)
C20_Witness ==
    /\ SaveDone /\ sv.result # None
    /\ \E r \in recipe_steps : \E t, u \in Handles :
          /\ r.recipe_id = sv.result /\ r.image_url = Absent
          /\ tasks[u].step_id = r.id
          /\ tasks[t].st = "done" /\ tasks[t].called = {"generate"}
          /\ tasks[t].attempt = max_retries + 1 /\ ~tasks[t].result.success
          /\ tasks[u].st = "done" /\ tasks[u].called = {"generate", "download", "upload"}
          /\ ~tasks[u].result.success

----------------------------------------------------------------------------
(* C21: a work item whose Future timed out in wait_for_all_images is not
   cancelled: the step that reports the timeout leaves the work items, the
   storage and the step rows as they are, and after the report the item can
   still upload its image and update its step row. *)
C21_TimedOutTaskRunsOn ==
    /\ [][(wt.pc = "waiting" /\ wt'.n = wt.n + 1 /\ wt'.results[wt.n] = TimeoutResult)
             => /\ tasks' = tasks /\ storage' = storage /\ recipe_steps' = recipe_steps
                /\ tasks[wt.futures[wt.n]].st # "done"]_vars
    /\ [](\A t \in Handles :
            ReportedTimeout(t)
                => /\ tasks[t].st = "upload" => ENABLED upload_file_to_oci(t)
                   /\ tasks[t].st = "update" => ENABLED update_recipe_step_image(t))

(* wait_for_all_images has returned success false for a handle whose work
   item has since uploaded its image and written image_url onto its step row *)
C21_Witness ==
    \E t \in Handles : \E r \in recipe_steps :
        /\ ReportedTimeout(t)
        /\ tasks[t].late = {"upload", "update"}
        /\ Filename(tasks[t].recipe_id, tasks[t].step_number) \in storage
        /\ r.id = tasks[t].step_id
        /\ r.image_url = tasks[t].image_data.image_url /\ r.image_url # Absent

----------------------------------------------------------------------------
(* the step in which the write of update_recipe_step_image raises *)
UpdateFailsNow(t) ==
    /\ tasks[t].st = "update" /\ "update" \in tasks'[t].called
    /\ quota'.faults < quota.faults

(* C22: when the step update fails after the upload, the object stays in
   storage, the step rows stay as they were, the work item ends at once with
   the success dict that carries the uploaded image_url, and it never runs
   again, so the write is not retried. *)
C22_UpdateFailureAbsorbed ==
    [][\A t \in Handles :
          /\ UpdateFailsNow(t)
                => /\ storage' = storage /\ recipe_steps' = recipe_steps
                   /\ tasks'[t].st = "done"
                   /\ "success" \in DOMAIN tasks'[t].result
                   /\ "error" \notin DOMAIN tasks'[t].result
                   /\ tasks'[t].result.success
                   /\ tasks'[t].result.image_url = tasks[t].image_data.image_url
                   /\ "upload" \in tasks[t].called
                         => /\ Filename(tasks[t].recipe_id, tasks[t].step_number)
                                  \in storage'
                            /\ tasks'[t].result.image_url
                                  = get_object_url(Filename(tasks[t].recipe_id,
                                                            tasks[t].step_number))
          /\ tasks[t].st = "done" => tasks'[t] = tasks[t]]_vars

(* an item has uploaded its image, its step update has failed, the object is
   stored, the step row has no image_url and the result reports success *)
C22_Witness ==
    \E t \in Handles : \E r \in recipe_steps :
        /\ tasks[t].st = "done" /\ {"upload", "update"} \subseteq tasks[t].called
        /\ r.id = tasks[t].step_id /\ r.image_url = Absent
        /\ Filename(tasks[t].recipe_id, tasks[t].step_number) \in storage
        /\ tasks[t].result.success
        /\ tasks[t].result.image_url = tasks[t].image_data.image_url

----------------------------------------------------------------------------
(* a master table has one row per name, letter case aside *)
OnePerName(table) ==
    \A a, b \in table : Fold(a.name) = Fold(b.name) => a.id = b.id

(* the rows this step adds to a master table name nothing the table had *)
FirstReference(table, tableNext) ==
    \A r \in tableNext \ table : \A o \in table : Fold(o.name) # Fold(r.name)

(* C23: under saves made one after another, the master ingredients table and
   the master equipment table hold at most one row per case-folded name; a
   row is inserted only for a name the table does not hold in any letter
   case. *)
C23_OneMasterRowPerName ==
    /\ [](OnePerName(ingredients) /\ OnePerName(equipment))
    /\ [][/\ FirstReference(ingredients, ingredients')
          /\ FirstReference(equipment, equipment')]_vars

(* a recipe links the names e and E, and a second recipe links the name too,
   all to the one master row *)
C23_Witness ==
    /\ Cardinality(ingredients) = 1
    /\ \E m \in ingredients : \E a, b, c \in recipe_ingredients :
          /\ a.name = <<"e">> /\ b.name = <<"E">> /\ a.recipe_id = b.recipe_id
          /\ c.recipe_id # a.recipe_id /\ Fold(c.name) = <<"e">>
          /\ a.ingredient_id = m.id /\ b.ingredient_id = m.id /\ c.ingredient_id = m.id

----------------------------------------------------------------------------
(* C24: the get-or-create of the master row is a lookup followed by an insert
   that looks at nothing: a thread that found no row inserts one whatever the
   table holds by then, so two overlapping saves of different recipes that
   name a new ingredient can both find nothing and both insert. *)
C24_LookupThenInsert ==
    /\ [][(sv.pc = "ing_create" /\ sv'.pc = "ing_link")
             => Cardinality(ingredients') = Cardinality(ingredients) + 1]_vars
    /\ [][(sv2.pc = "ing_create" /\ sv2'.pc = "ing_link")
             => Cardinality(ingredients') = Cardinality(ingredients) + 1]_vars
    /\ []((sv.pc = "ing_create" /\ sv2.pc = "ing_create")
             => /\ ENABLED _get_or_create_ingredient_insert
                /\ ENABLED _get_or_create_ingredient_insert_2)

(* both saves have returned their ids, for different recipes, and the master
   table holds two rows with one case-folded name *)
C24_Witness ==
    /\ SaveDone /\ sv2.pc = "done"
    /\ sv.result # None /\ sv2.result # None /\ sv.result # sv2.result
    /\ \E a, b \in ingredients : a.id # b.id /\ Fold(a.name) = Fold(b.name)
    /\ \E l, m \in recipe_ingredients :
          /\ l.recipe_id = sv.result /\ m.recipe_id = sv2.result
          /\ l.ingredient_id # m.ingredient_id

----------------------------------------------------------------------------
(* the link rows the current call inserted for its recipe *)
NewIngredientRows ==
    {r \in recipe_ingredients :
        r.recipe_id = sv.recipe_id /\ r.id > sv.base.recipe_ingredients}
NewEquipmentRows ==
    {r \in recipe_equipment :
        r.recipe_id = sv.recipe_id /\ r.id > sv.base.recipe_equipment}

(* how many entries of the list, and how many of the rows, carry the name *)
Entries(items, name) == Cardinality({n \in 1..Len(items) : items[n].name = name})
RowsNamed(rows, name) == Cardinality({r \in rows : r.name = name})

(* C25, as stated: after a save in which nothing raised, the recipe has one
   recipe_ingredients row and one recipe_equipment row per distinct name,
   letter case aside. *)
C25_OneRowPerDistinctName ==
    (SaveDone /\ sv.result # None /\ ~sv.faulted)
        => /\ \A a, b \in NewIngredientRows : Fold(a.name) = Fold(b.name) => a.id = b.id
           /\ \A a, b \in NewEquipmentRows : Fold(a.name) = Fold(b.name) => a.id = b.id

(* C25, amended: a save inserts one recipe_ingredients row and one
   recipe_equipment row per named entry of the submitted list, under the name
   as submitted: an item the list names twice gets two rows.  A call in which
   an operation raised inserts at most these rows. *)
C25_OneRowPerEntry ==
    (SaveDone /\ sv.result # None)
        => /\ \A r \in NewIngredientRows :
                RowsNamed(NewIngredientRows, r.name) <= Entries(sv.data.ingredients, r.name)
           /\ \A r \in NewEquipmentRows :
                RowsNamed(NewEquipmentRows, r.name) <= Entries(sv.data.equipment, r.name)
           /\ ~sv.faulted
                => /\ \A n \in 1..Len(sv.data.ingredients) :
                        LET name == sv.data.ingredients[n].name
                        IN  name # Absent
                               => RowsNamed(NewIngredientRows, name)
                                     = Entries(sv.data.ingredients, name)
                   /\ \A n \in 1..Len(sv.data.equipment) :
                        LET name == sv.data.equipment[n].name
                        IN  name # Absent
                               => RowsNamed(NewEquipmentRows, name)
                                     = Entries(sv.data.equipment, name)

(* a save whose list names e and E has returned, and the recipe has a row for
   each of the two *)
C25_Witness ==
    /\ SaveDone /\ sv.result # None /\ ~sv.faulted
    /\ \E a, b \in NewIngredientRows :
          a.name = <<"e">> /\ b.name = <<"E">> /\ a.ingredient_id = b.ingredient_id
    /\ Cardinality(NewIngredientRows) = 2

----------------------------------------------------------------------------
(* the step in which an item that took the short cut makes its step update *)
SkipUpdatesNow(t) ==
    /\ tasks[t].st = "update" /\ "upload" \notin tasks[t].called
    /\ "update" \in tasks'[t].called

(* C26: an item that found its object in storage ends as a success: it makes
   the step update, which, unless the write itself raises, sets the row's
   image_url to the URL of the stored object and its image_prompt to
   "existing", and its result has success true and skipped true. *)
C26_SkipIsSuccess ==
    [][\A t \in Handles :
          SkipUpdatesNow(t)
              => LET url == get_object_url(Filename(tasks[t].recipe_id,
                                                    tasks[t].step_number))
                     result == tasks'[t].result
                 IN  /\ tasks'[t].st = "done"
                     /\ tasks[t].callback \/ {"success", "skipped", "step_id", "image_url",
                                              "prompt"} \subseteq DOMAIN result
                     /\ ~tasks[t].callback
                           => /\ result.success /\ result.skipped
                              /\ result.step_id = tasks[t].step_id
                              /\ result.image_url = url /\ result.prompt = "existing"
                     /\ quota'.faults = quota.faults
                           => \A r \in recipe_steps' :
                                 r.id = tasks[t].step_id
                                     => /\ r.image_url = url
                                        /\ r.image_prompt = "existing"
                                        /\ r.image_generated_at = "now()"]_vars

(* an item has skipped and is done; its result has success and skipped true
   and its step row carries the URL of the stored object with the prompt
   "existing" *)
C26_Witness ==
    \E t \in Handles : \E r \in recipe_steps :
        /\ tasks[t].st = "done" /\ tasks[t].called = {"update"}
        /\ tasks[t].result.success /\ tasks[t].result.skipped
        /\ r.id = tasks[t].step_id /\ r.image_prompt = "existing"
        /\ r.image_url = get_object_url(Filename(tasks[t].recipe_id, tasks[t].step_number))

----------------------------------------------------------------------------
(* The step's rows and the moment its work item is handed over.            *)

(* the thread hands a work item over in this step *)
Dispatches == sv.pc = "dispatch" /\ Len(tasks') = Len(tasks) + 1

(* the work item has made its selects *)
HasContext(t) == tasks[t].context # NoResult

(* what the work item read is what the step has *)
ReadAllJoins(t) ==
    /\ tasks[t].context.ingredients
         = {j.ingredient_id : j \in JoinRows(step_ingredients, tasks[t].step_id)}
    /\ tasks[t].context.equipment
         = {j.equipment_id : j \in JoinRows(step_equipment, tasks[t].step_id)}

(* C27: save_recipe_to_db hands a step's work item over after the step row and
   the step's join rows are written: the step row is then the newest one (no
   later step of the list is inserted yet), the joins are one per reference
   the lookups resolve unless a database call of this save raised, and a work
   item that has made its selects has read every join row its step ever has. *)
C27_StepRowsBeforeDispatch ==
    /\ [](\A t \in Handles : HasContext(t) => ReadAllJoins(t))
    /\ [][Dispatches =>
            LET step == sv.data.steps[sv.j]
                task == tasks'[Len(tasks')]
            IN  /\ task.step_id = lastId["recipe_steps"]
                /\ \E r \in recipe_steps :
                       r.id = task.step_id /\ r.recipe_id = task.recipe_id
                /\ ~sv.faulted =>
                       /\ Cardinality(JoinRows(step_ingredients, task.step_id))
                            = Cardinality(ResolvedLike(step.ingredients, recipe_ingredients,
                                                       sv.recipe_id))
                       /\ Cardinality(JoinRows(step_equipment, task.step_id))
                            = Cardinality(ResolvedLike(step.equipment, recipe_equipment,
                                                       sv.recipe_id))]_vars

(* a work item read its joins when step 2 of its recipe did not exist; the
   step was inserted afterwards *)
C27_Witness ==
    \E t \in Handles :
        /\ HasContext(t)
        /\ tasks[t].context.ingredients # {}
        /\ 2 \notin tasks[t].context.steps
        /\ \E r \in recipe_steps : r.recipe_id = tasks[t].recipe_id /\ r.step_number = 2

----------------------------------------------------------------------------
(* The image of a step number across the versions of a recipe.             *)

(* the work item passes the existence check in this step and finds the object *)
FindsObjectNow(t) ==
    /\ tasks[t].st = "queued" /\ tasks'[t].st \notin {"queued", "done"}
    /\ object_exists(Filename(tasks[t].recipe_id, tasks[t].step_number))

(* the step row of the work item, after the step, carries the stored object *)
RowCarriesStored(t) ==
    \A r \in recipe_steps' :
        r.id = tasks[t].step_id
            => /\ r.image_url = get_object_url(Filename(tasks[t].recipe_id,
                                                        tasks[t].step_number))
               /\ r.image_prompt = "existing"

(* C28: saves of one title keep one recipe row, and every work item of a save
   has check_existing true and the id of that row; so an item that finds an
   object stored under its recipe id and step number, by whichever version,
   takes the short cut, never calls the generator, the download or the upload,
   and its step update writes the URL of that object to its step row. *)
C28_OldImageKept ==
    /\ [](Cardinality(recipes) <= 1)
    /\ [](\A t \in Handles :
            /\ tasks[t].check_existing
            /\ tasks[t].recipe_id \in Ids(recipes)
            /\ Skipped(t) => tasks[t].called \cap {"generate", "download", "upload"} = {})
    /\ [][\A t \in Handles :
            /\ FindsObjectNow(t) =>
                   /\ tasks'[t].st = "update"
                   /\ Skipped(t)'
            /\ SkipUpdatesNow(t) => RowCarriesStored(t)]_vars

(* the rewritten step carries the image that the only upload for its step
   number made: an item of the first version, for the other instruction, which
   uploaded after its own step row was deleted *)
C28_Witness ==
    \E r \in recipe_steps : \E u \in Handles :
        /\ r.instruction = ToastAgain.steps[1].instruction
        /\ r.image_prompt = "existing"
        /\ r.image_url = get_object_url(Filename(r.recipe_id, r.step_number))
        /\ Uploaded(r.recipe_id, r.step_number) = {u}
        /\ tasks[u].step_instruction = Toast.steps[1].instruction
        /\ tasks[u].step_id # r.id
        /\ tasks[u].orphan

----------------------------------------------------------------------------
(* Two step rows of a recipe with one step number.                         *)

(* two rows of one recipe and step number, each with a work item that ended
   with success *)
Twins ==
    {p \in recipe_steps \X recipe_steps :
        /\ p[1].id < p[2].id
        /\ p[1].recipe_id = p[2].recipe_id
        /\ p[1].step_number = p[2].step_number
        /\ Succeeded(p[1].id) # {}
        /\ Succeeded(p[2].id) # {}}

(* C29 as claimed: two step rows of a recipe with the same step_number, both of
   whose work items ended with success, carry the same image_url. *)
C29_TwinsShareImage ==
    \A p \in Twins : p[1].image_url = p[2].image_url

(* C29: two step rows of a recipe with the same step_number, both of whose
   work items ended with success and both of whose step updates were written,
   carry the same image_url, the URL of the one object of that step number. *)
C29_WrittenTwinsShareImage ==
    \A p \in Twins :
        (p[1].image_url # Absent /\ p[2].image_url # Absent)
            => /\ p[1].image_url = p[2].image_url
               /\ p[1].image_url = get_object_url(Filename(p[1].recipe_id, p[1].step_number))

(* both rows carry the URL, and both work items went through the upload: the
   second one wrote over the object of the first *)
C29_Witness ==
    \E p \in Twins :
        /\ p[1].image_url # Absent
        /\ p[1].image_url = p[2].image_url
        /\ \A q \in {p[1], p[2]} :
              \E t \in Succeeded(q.id) : "upload" \in tasks[t].called

----------------------------------------------------------------------------
(* What a call of save_recipe_to_db leaves alone.                          *)

(* the recipe a join row belongs to, through its step *)
OwnersOf(j) == {r.recipe_id : r \in {x \in recipe_steps : x.id = j.step_id}}

(* the rows of a child table that are new or changed after the step *)
Written(rows, rowsNext) == rowsNext \ rows

(* C30: every database call of save_recipe_to_db for the recipe R it resolved
   leaves every row of another recipe as it is (the recipes row, the
   recipe_ingredients, recipe_equipment and recipe_steps rows, the join rows
   of its steps), writes child rows of R only, and leaves every master
   ingredients and equipment row as it is: the master tables only grow. *)
C30_OtherRecipesUntouched ==
    [][sv' # sv =>
        LET R == sv'.recipe_id
        IN  /\ ingredients \subseteq ingredients'
            /\ equipment \subseteq equipment'
            /\ \A r \in recipes : r.id # R => r \in recipes'
            /\ \A r \in recipe_ingredients : r.recipe_id # R => r \in recipe_ingredients'
            /\ \A r \in recipe_equipment : r.recipe_id # R => r \in recipe_equipment'
            /\ \A r \in recipe_steps : r.recipe_id # R => r \in recipe_steps'
            /\ \A j \in step_ingredients :
                  (OwnersOf(j) # {} /\ R \notin OwnersOf(j)) => j \in step_ingredients'
            /\ \A j \in step_equipment :
                  (OwnersOf(j) # {} /\ R \notin OwnersOf(j)) => j \in step_equipment'
            /\ \A r \in Written(recipes, recipes') : r.id = R
            /\ \A r \in Written(recipe_ingredients, recipe_ingredients') : r.recipe_id = R
            /\ \A r \in Written(recipe_equipment, recipe_equipment') : r.recipe_id = R
            /\ \A r \in Written(recipe_steps, recipe_steps') : r.recipe_id = R
            /\ \A j \in Written(step_ingredients, step_ingredients') :
                  \E r \in recipe_steps' : r.id = j.step_id /\ r.recipe_id = R
            /\ \A j \in Written(step_equipment, step_equipment') :
                  \E r \in recipe_steps' : r.id = j.step_id /\ r.recipe_id = R]_vars

(* an overwrite has replaced the rows of its recipe while another recipe has
   a step row with a join row, and the master tables have rows *)
C30_Witness ==
    /\ SaveDone /\ sv.existing /\ sv.writes > 0
    /\ ingredients # {} /\ equipment # {}
    /\ \E r \in recipe_steps :
          /\ r.recipe_id # sv.recipe_id
          /\ JoinRows(step_ingredients, r.id) # {}

====
